---- MODULE Spec2Model ----
(***************************************************************************)
(* Streaming transform contract of golang.org/x/text: the Transformer      *)
(* implementations (width fold, UTF-8 validator, PRECIS checker, EUC-JP    *)
(* and EUC-KR decoders, Unicode normalization forms) and transform.Reader. *)
(* Byte slices are sequences of integers 0..255; Go index i is TLA+ index  *)
(* i+1.  A destination buffer is a sequence of length len(dst) whose       *)
(* unwritten cells hold Untouched.                                          *)
(***************************************************************************)
EXTENDS Integers, Sequences, FiniteSets, TLC

VARIABLES
  phase,      \* position of the harness that drives the calls
  callT,      \* the transformer of the recorded call or session
  callDst,    \* len(dst) of the call
  callSrc,    \* src of the call
  callEOF,    \* atEOF of the call
  callRes,    \* (nDst, nSrc, err) and dst after the call
  sessIn,     \* the whole input of a session of repeated calls
  sessFed,    \* how many bytes of the input the caller has supplied
  sessPos,    \* how many bytes of the input Transform has consumed
  sessOut,    \* the concatenation of dst[:nDst] of the session's calls
  reader,     \* the fields of a transform.Reader
  source,     \* the Reader's byte source, its caller and what they have seen
  iter,       \* the fields of a colltab.Iter and the blocks of its input
  idna        \* an IDNA label iterator or a label check and its position

callVars == <<callT, callDst, callSrc, callEOF, callRes>>

sessVars == <<sessIn, sessFed, sessPos, sessOut>>

readerVars == <<reader, source>>

otherVars == <<iter, idna>>

vars ==
  <<phase, callT, callDst, callSrc, callEOF, callRes, sessIn, sessFed,
    sessPos, sessOut, reader, source, iter, idna>>

\* The Iter and the IDNA state outside the runs that use them.
NoIter == [Elems |-> <<>>, N |-> 0, prevCCC |-> 0, pStarter |-> 0]

NoLabel == [orig |-> <<>>]

\* ---------------------------------------------------------------- bounds
\* Longest source of a codec call in bytes, largest destination of a codec
\* call, longest normalization input in runes.
MaxSrcLen == 4
MaxDstLen == 4
MaxRunes == 4

\* Reader runs: the longest stream of the byte source, the largest staging
\* buffer, the largest len(p) of a Read.
MaxStream == 4

MaxStage == 3

MaxRead == 2

\* ------------------------------------------------------------- constants
RuneSelf == 128
RuneError == 65533
UTFMax == 4
ASCIISub == 26
Untouched == 0 - 1

\* --------------------------------------------------------------- helpers
Min(a, b) == IF a < b THEN a ELSE b

SeqsUpTo(S, n) == UNION {[1..k -> S] : k \in 0..n}

NewBuf(n) == [i \in 1..n |-> Untouched]

\* copy(dst[at:], bytes): writes min(len(dst)-at, len(bytes)) bytes.
CopyAt(dst, at, bytes) ==
  [i \in 1..Len(dst) |->
     IF i > at /\ i <= at + Len(bytes) THEN bytes[i - at] ELSE dst[i]]

CopyLen(dst, at, bytes) == Min(Len(dst) - at, Len(bytes))

\* s[from:] in Go indices.
From(s, from) == SubSeq(s, from + 1, Len(s))

\* s[from:to] in Go indices.
Slice(s, from, to) == SubSeq(s, from + 1, to)

Result(nd, ns, e, d) == [nDst |-> nd, nSrc |-> ns, err |-> e, dst |-> d]

IsCont(c) == c >= 128 /\ c < 192

\* ------------------------------------------------------------ unicode/utf8
RuneLen(r) ==
  IF r < 0 THEN 0 - 1
  ELSE IF r < 128 THEN 1
  ELSE IF r < 2048 THEN 2
  ELSE IF r >= 55296 /\ r <= 57343 THEN 0 - 1
  ELSE IF r < 65536 THEN 3
  ELSE IF r <= 1114111 THEN 4
  ELSE 0 - 1

EncodeRune(r) ==
  IF r < 128 THEN <<r>>
  ELSE IF r < 2048 THEN <<192 + (r \div 64), 128 + (r % 64)>>
  ELSE IF r < 65536 THEN
    <<224 + (r \div 4096), 128 + ((r \div 64) % 64), 128 + (r % 64)>>
  ELSE <<240 + (r \div 262144), 128 + ((r \div 4096) % 64),
         128 + ((r \div 64) % 64), 128 + (r % 64)>>

\* utf8.DecodeRune: (RuneError, 0) for empty input, (RuneError, 1) for an
\* invalid or incomplete encoding.
DecodeRune(s) ==
  IF Len(s) = 0 THEN [r |-> RuneError, size |-> 0]
  ELSE LET c0 == s[1]
           bad == [r |-> RuneError, size |-> 1]
       IN IF c0 < 128 THEN [r |-> c0, size |-> 1]
          ELSE IF c0 < 194 THEN bad
          ELSE IF c0 < 224 THEN
            IF Len(s) < 2 \/ ~IsCont(s[2]) THEN bad
            ELSE [r |-> (c0 - 192) * 64 + (s[2] - 128), size |-> 2]
          ELSE IF c0 < 240 THEN
            IF Len(s) < 3 \/ ~IsCont(s[2]) \/ ~IsCont(s[3]) THEN bad
            ELSE LET r == (c0 - 224) * 4096 + (s[2] - 128) * 64 + (s[3] - 128)
                 IN IF r < 2048 \/ (r >= 55296 /\ r <= 57343) THEN bad
                    ELSE [r |-> r, size |-> 3]
          ELSE IF c0 < 245 THEN
            IF Len(s) < 4 \/ ~IsCont(s[2]) \/ ~IsCont(s[3]) \/ ~IsCont(s[4])
            THEN bad
            ELSE LET r == (c0 - 240) * 262144 + (s[2] - 128) * 4096
                          + (s[3] - 128) * 64 + (s[4] - 128)
                 IN IF r < 65536 \/ r > 1114111 THEN bad
                    ELSE [r |-> r, size |-> 4]
          ELSE bad

\* utf8.FullRune: does s begin with a full encoding (invalid ones are full).
AcceptLo(c0) == IF c0 = 224 THEN 160 ELSE IF c0 = 240 THEN 144 ELSE 128

AcceptHi(c0) == IF c0 = 237 THEN 159 ELSE IF c0 = 244 THEN 143 ELSE 191

FullRune(s) ==
  IF Len(s) = 0 THEN FALSE
  ELSE LET c0 == s[1]
           need == IF c0 < 194 THEN 1 ELSE IF c0 < 224 THEN 2
                   ELSE IF c0 < 240 THEN 3 ELSE IF c0 < 245 THEN 4 ELSE 1
       IN IF Len(s) >= need THEN TRUE
          ELSE IF Len(s) > 1 /\ (s[2] < AcceptLo(c0) \/ AcceptHi(c0) < s[2])
            THEN TRUE
          ELSE IF Len(s) > 2 /\ ~IsCont(s[3]) THEN TRUE
          ELSE FALSE

\* ------------------------------------------------------------- width fold
\* The generated width trie: size 0 for a truncated encoding, value 0 (no
\* fold) with the number of well-formed leading bytes for an ill-formed one.
trieLookup(s) ==
  LET c0 == s[1]
      none(n) == [size |-> n, rune |-> 0 - 1]
  IN IF c0 < 128 THEN [size |-> 1, rune |-> c0]
     ELSE IF c0 < 192 THEN none(1)
     ELSE IF c0 < 224 THEN
       IF Len(s) < 2 THEN none(0)
       ELSE IF ~IsCont(s[2]) THEN none(1)
       ELSE [size |-> 2, rune |-> (c0 - 192) * 64 + (s[2] - 128)]
     ELSE IF c0 < 240 THEN
       IF Len(s) < 3 THEN none(0)
       ELSE IF ~IsCont(s[2]) THEN none(1)
       ELSE IF ~IsCont(s[3]) THEN none(2)
       ELSE [size |-> 3,
             rune |-> (c0 - 224) * 4096 + (s[2] - 128) * 64 + (s[3] - 128)]
     ELSE IF c0 < 248 THEN
       IF Len(s) < 4 THEN none(0)
       ELSE IF ~IsCont(s[2]) THEN none(1)
       ELSE IF ~IsCont(s[3]) THEN none(2)
       ELSE IF ~IsCont(s[4]) THEN none(3)
       ELSE [size |-> 4,
             rune |-> (c0 - 240) * 262144 + (s[2] - 128) * 4096
                      + (s[3] - 128) * 64 + (s[4] - 128)]
     ELSE none(1)

\* elem(v)&tagNeedsFold != 0: fullwidth ASCII variants U+FF01..U+FF5E and
\* the fullwidth cent sign U+FFE0 of the modelled alphabet.
needsFold(r) == (r >= 65281 /\ r <= 65374) \/ r = 65504

\* The bytes inverseData yields for a rune that needs folding.
inverseData(r) == IF r = 65504 THEN <<194, 162>> ELSE <<r - 65248>>

\* End of the ASCII run of the fast path: the for loop of line 25.
RECURSIVE asciiRun(_, _, _)
asciiRun(src, n, end) ==
  IF n < end /\ src[n + 1] < RuneSelf THEN asciiRun(src, n + 1, end) ELSE n

\* foldTransform.Transform: the loop body from the state (nDst, nSrc).
RECURSIVE foldLoop(_, _, _, _, _)
foldLoop(dst, src, atEOF, nDst, nSrc) ==
  IF nSrc >= Len(src) THEN Result(nDst, nSrc, "nil", dst)
  ELSE IF src[nSrc + 1] < RuneSelf THEN
    LET start == nSrc
        d == Len(dst) - nDst
        end == IF d < Len(src) - start THEN nSrc + d ELSE Len(src)
        n1 == asciiRun(src, nSrc + 1, end)
        dst1 == CopyAt(dst, nDst, Slice(src, start, n1))
        nDst1 == nDst + CopyLen(dst, nDst, Slice(src, start, n1))
    IN IF nDst1 = Len(dst) /\ n1 < Len(src) /\ src[n1 + 1] < RuneSelf
       THEN Result(nDst1, n1, "ErrShortDst", dst1)
       ELSE foldLoop(dst1, src, atEOF, nDst1, n1)
  ELSE
    LET l == trieLookup(From(src, nSrc))
        size == IF l.size = 0 THEN 1 ELSE l.size
    IN IF l.size = 0 /\ ~atEOF THEN Result(nDst, nSrc, "ErrShortSrc", dst)
       ELSE IF ~needsFold(l.rune) THEN
         LET bytes == Slice(src, nSrc, nSrc + size)
             dst1 == CopyAt(dst, nDst, bytes)
         IN IF size # CopyLen(dst, nDst, bytes)
            THEN Result(nDst, nSrc, "ErrShortDst", dst1)
            ELSE foldLoop(dst1, src, atEOF, nDst + size, nSrc + size)
       ELSE
         LET data == inverseData(l.rune)
         IN IF Len(dst) - nDst < Len(data)
            THEN Result(nDst, nSrc, "ErrShortDst", dst)
            ELSE foldLoop(CopyAt(dst, nDst, data), src, atEOF,
                          nDst + Len(data), nSrc + size)

foldTransform(dst, src, atEOF) == foldLoop(dst, src, atEOF, 0, 0)

\* ------------------------------------------------------ encoding.UTF8Validator
RECURSIVE validatorLoop(_, _, _, _, _)
validatorLoop(dst, src, atEOF, n, i) ==
  IF i >= n THEN
    Result(n, n, IF Len(src) > Len(dst) THEN "ErrShortDst" ELSE "nil", dst)
  ELSE IF src[i + 1] < RuneSelf THEN
    validatorLoop(CopyAt(dst, i, <<src[i + 1]>>), src, atEOF, n, i + 1)
  ELSE
    LET size == DecodeRune(From(src, i)).size
    IN IF size = 1 THEN
         Result(i, i,
                IF ~atEOF /\ ~FullRune(From(src, i)) THEN "ErrShortSrc"
                ELSE "ErrInvalidUTF8", dst)
       ELSE IF i + size > Len(dst) THEN Result(i, i, "ErrShortDst", dst)
       ELSE validatorLoop(CopyAt(dst, i, Slice(src, i, i + size)), src, atEOF,
                          n, i + size)

utf8ValidatorTransform(dst, src, atEOF) ==
  validatorLoop(dst, src, atEOF, Min(Len(src), Len(dst)), 0)

\* --------------------------------------------------------- precis checker
\* c.allowed.Contains(r) for the two string classes: the identifier class
\* admits letters, digits and marks (a, U+00E0, U+0300), the freeform class
\* also spaces, symbols and runes with a compatibility decomposition
\* (U+0020, U+FFFD, U+FF41).
allowedContains(class, r) ==
  IF class = "identifier" THEN r \in {97, 224, 768}
  ELSE r \in {97, 224, 768, 32, 65345} \/ r = RuneError

RECURSIVE checkerLoop(_, _, _, _, _, _)
checkerLoop(class, dst, src, atEOF, nDst, nSrc) ==
  IF nSrc >= Len(src) THEN Result(nDst, nSrc, "nil", dst)
  ELSE
    LET d == DecodeRune(From(src, nSrc))
        size == IF d.size = 0 THEN 1 ELSE d.size
    IN IF d.size = 0 /\ ~atEOF THEN Result(nDst, nSrc, "ErrShortSrc", dst)
       ELSE IF allowedContains(class, d.r) THEN
         LET bytes == Slice(src, nSrc, nSrc + size)
             dst1 == CopyAt(dst, nDst, bytes)
         IN IF size # CopyLen(dst, nDst, bytes)
            THEN Result(nDst, nSrc, "ErrShortDst", dst1)
            ELSE checkerLoop(class, dst1, src, atEOF, nDst + size, nSrc + size)
       ELSE Result(nDst, nSrc, "errDisallowedRune", dst)

checkerTransform(class, dst, src, atEOF) ==
  checkerLoop(class, dst, src, atEOF, 0, 0)

\* ----------------------------------------------------------- EUC-JP decoder
\* Entries of the JIS X 0208 and JIS X 0212 tables reached by the modelled
\* bytes; 0 is an unmapped entry.
jis0208Decode(i) ==
  IF i = 283 THEN 12354 ELSE IF i = 285 THEN 12356 ELSE 0

jis0212Decode(i) == IF i = 1410 THEN 19970 ELSE 0

\* The switch of eucJPDecoder.Transform on src[nSrc]: the rune and size, or
\* the error that leaves the loop.
eucJPSwitch(src, nSrc) ==
  LET c0 == src[nSrc + 1]
      ok(r, size) == [err |-> "nil", r |-> r, size |-> size]
      fail(e) == [err |-> e, r |-> 0, size |-> 0]
      sub(r) == IF r = 0 THEN ASCIISub ELSE r
  IN IF c0 < RuneSelf THEN ok(c0, 1)
     ELSE IF c0 = 142 THEN
       IF nSrc + 1 >= Len(src) THEN fail("ErrShortSrc")
       ELSE LET c1 == src[nSrc + 2]
            IN IF c1 < 161 \/ 223 < c1 THEN fail("errInvalidEUCJP")
               ELSE ok(c1 + (65377 - 161), 2)
     ELSE IF c0 = 143 THEN
       IF nSrc + 2 >= Len(src) THEN fail("ErrShortSrc")
       ELSE LET c1 == src[nSrc + 2]
                c2 == src[nSrc + 3]
            IN IF c1 < 161 \/ 254 < c1 THEN fail("errInvalidEUCJP")
               ELSE IF c2 < 161 \/ 254 < c2 THEN fail("errInvalidEUCJP")
               ELSE ok(sub(jis0212Decode((c1 - 161) * 94 + (c2 - 161))), 3)
     ELSE IF 161 <= c0 /\ c0 <= 254 THEN
       IF nSrc + 1 >= Len(src) THEN fail("ErrShortSrc")
       ELSE LET c1 == src[nSrc + 2]
            IN IF c1 < 161 \/ 254 < c1 THEN fail("errInvalidEUCJP")
               ELSE ok(sub(jis0208Decode((c0 - 161) * 94 + (c1 - 161))), 2)
     ELSE fail("errInvalidEUCJP")

\* eucJPFinal without the translation at end of input.
eucJPFinalKeepsErr(err, atEOF) == err

\* The translation of ErrShortSrc at end of input, lines 108-110.
eucJPFinal(err, atEOF) ==
  IF atEOF /\ err = "ErrShortSrc" THEN "errInvalidEUCJP" ELSE err

\* The destination check of line 102.
eucJPShortDst(nDst, r, dst) == nDst + RuneLen(r) >= Len(dst)

RECURSIVE eucJPLoop(_, _, _, _, _)
eucJPLoop(dst, src, atEOF, nDst, nSrc) ==
  IF nSrc >= Len(src) THEN Result(nDst, nSrc, eucJPFinal("nil", atEOF), dst)
  ELSE
    LET s == eucJPSwitch(src, nSrc)
    IN IF s.err # "nil"
       THEN Result(nDst, nSrc, eucJPFinal(s.err, atEOF), dst)
       ELSE IF eucJPShortDst(nDst, s.r, dst)
       THEN Result(nDst, nSrc, eucJPFinal("ErrShortDst", atEOF), dst)
       ELSE eucJPLoop(CopyAt(dst, nDst, EncodeRune(s.r)), src, atEOF,
                      nDst + RuneLen(s.r), nSrc + s.size)

eucJPDecoderTransform(dst, src, atEOF) == eucJPLoop(dst, src, atEOF, 0, 0)

\* ----------------------------------------------------------- EUC-KR decoder
eucKRDecode(i) ==
  IF i = 8450 THEN 44032 ELSE IF i = 8465 THEN 44049 ELSE 0

eucKRSwitch(src, nSrc) ==
  LET c0 == src[nSrc + 1]
      ok(r, size) == [err |-> "nil", r |-> r, size |-> size]
      fail(e) == [err |-> e, r |-> 0, size |-> 0]
      sub(r) == IF r = 0 THEN ASCIISub ELSE r
  IN IF c0 < RuneSelf THEN ok(c0, 1)
     ELSE IF 129 <= c0 /\ c0 < 255 THEN
       IF nSrc + 1 >= Len(src) THEN fail("ErrShortSrc")
       ELSE LET c1 == src[nSrc + 2]
                base == 178 * (c0 - 129)
                idx == IF c0 < 199 THEN
                         IF 65 <= c1 /\ c1 < 91 THEN base + c1 - 65
                         ELSE IF 97 <= c1 /\ c1 < 123 THEN base + c1 - (97 - 26)
                         ELSE IF 129 <= c1 /\ c1 < 255
                           THEN base + c1 - (129 - 52)
                         ELSE 0 - 1
                       ELSE IF 161 <= c1 /\ c1 < 255
                         THEN 178 * (199 - 129) + (c0 - 199) * 94 + (c1 - 161)
                       ELSE 0 - 1
            IN IF idx < 0 THEN fail("errInvalidEUCKR")
               ELSE ok(sub(eucKRDecode(idx)), 2)
     ELSE fail("errInvalidEUCKR")

eucKRFinal(err, atEOF) ==
  IF atEOF /\ err = "ErrShortSrc" THEN "errInvalidEUCKR" ELSE err

\* The destination check of line 279.
eucKRShortDst(nDst, r, dst) == nDst + RuneLen(r) > Len(dst)

RECURSIVE eucKRLoop(_, _, _, _, _)
eucKRLoop(dst, src, atEOF, nDst, nSrc) ==
  IF nSrc >= Len(src) THEN Result(nDst, nSrc, eucKRFinal("nil", atEOF), dst)
  ELSE
    LET s == eucKRSwitch(src, nSrc)
    IN IF s.err # "nil"
       THEN Result(nDst, nSrc, eucKRFinal(s.err, atEOF), dst)
       ELSE IF eucKRShortDst(nDst, s.r, dst)
       THEN Result(nDst, nSrc, eucKRFinal("ErrShortDst", atEOF), dst)
       ELSE eucKRLoop(CopyAt(dst, nDst, EncodeRune(s.r)), src, atEOF,
                      nDst + RuneLen(s.r), nSrc + s.size)

eucKRDecoderTransform(dst, src, atEOF) == eucKRLoop(dst, src, atEOF, 0, 0)

\* ------------------------------------------------------ normalization oracle
maxCombiningChars == 30

composing(f) == f = "NFC"

\* Properties of a code point; r < 0 stands for an ill-formed byte, which
\* the trie reports with the zero value (a starter, inert).
runeProps(r) ==
  LET p(ccc, yc, yd, cb, cf, dec) ==
        [ccc |-> ccc, yesC |-> yc, yesD |-> yd, combinesBackward |-> cb,
         combinesForward |-> cf, decomp |-> dec]
  IN IF r = 97 \/ r = 65 THEN p(0, TRUE, TRUE, FALSE, TRUE, <<>>)
     ELSE IF r = 768 THEN p(230, FALSE, TRUE, TRUE, FALSE, <<>>)
     ELSE IF r = 800 THEN p(220, TRUE, TRUE, FALSE, FALSE, <<>>)
     ELSE IF r = 864 THEN p(234, TRUE, TRUE, FALSE, FALSE, <<>>)
     ELSE IF r = 832 THEN p(230, FALSE, FALSE, FALSE, FALSE, <<768>>)
     ELSE IF r = 224 THEN p(0, TRUE, FALSE, FALSE, FALSE, <<97, 768>>)
     ELSE IF r = 192 THEN p(0, TRUE, FALSE, FALSE, FALSE, <<65, 768>>)
     ELSE p(0, TRUE, TRUE, FALSE, FALSE, <<>>)

\* The pairwise composition table; 0 when the pair does not combine.
combine(a, b) ==
  IF a = 97 /\ b = 768 THEN 224
  ELSE IF a = 65 /\ b = 768 THEN 192
  ELSE 0

\* f.info(src, i): the properties of the rune at src[i:] and its size.
info(src, i) ==
  LET l == trieLookup(From(src, i))
      r == IF l.size = 0 THEN 0 - 1 ELSE l.rune
  IN [size |-> l.size, r |-> r, bytes |-> Slice(src, i, i + l.size),
      props |-> runeProps(r)]

BoundaryBefore(p) == p.ccc = 0 /\ ~p.combinesBackward

isInert(p) ==
  p.ccc = 0 /\ p.yesC /\ p.yesD /\ ~p.combinesBackward /\ ~p.combinesForward

BoundaryAfter(p) == isInert(p)

\* src.skipASCII(i, n)
RECURSIVE skipASCII(_, _, _)
skipASCII(src, i, n) ==
  IF i < n /\ src[i + 1] < RuneSelf THEN skipASCII(src, i + 1, n) ELSE i

\* ------------------------------------------------------------- quickSpan
\* The for loop of formInfo.quickSpan from the state
\* (i, lastSegStart, lastCC, nc); n is the end of the span.
RECURSIVE quickSpanLoop(_, _, _, _, _, _, _, _)

\* quickSpanRune that stops before an incomplete rune at end of input too.
quickSpanRuneStopsAtIncomplete(f, src, n, atEOF, i, lastSegStart, lastCC, nc, nf) ==
  LET cc == nf.props.ccc
      yes == IF composing(f) THEN nf.props.yesC ELSE nf.props.yesD
  IN IF nf.size = 0 THEN [n |-> lastSegStart, ok |-> TRUE]
     ELSE IF ~yes THEN
       IF composing(f) THEN [n |-> lastSegStart, ok |-> FALSE]
       ELSE [n |-> i, ok |-> FALSE]
     ELSE IF cc = 0 THEN
       quickSpanLoop(f, src, n, atEOF, i + nf.size, i, cc, 0)
     ELSE IF nc >= maxCombiningChars THEN
       quickSpanLoop(f, src, n, atEOF, i + nf.size, i, cc, 1)
     ELSE IF lastCC > cc THEN [n |-> lastSegStart, ok |-> FALSE]
     ELSE quickSpanLoop(f, src, n, atEOF, i + nf.size, lastSegStart, cc,
                        nc + 1)

\* quickSpanRune without the test of the order of the combining classes.
quickSpanRuneUnordered(f, src, n, atEOF, i, lastSegStart, lastCC, nc, nf) ==
  LET cc == nf.props.ccc
      yes == IF composing(f) THEN nf.props.yesC ELSE nf.props.yesD
  IN IF nf.size = 0 THEN
       [n |-> IF atEOF THEN n ELSE lastSegStart, ok |-> TRUE]
     ELSE IF ~yes THEN
       IF composing(f) THEN [n |-> lastSegStart, ok |-> FALSE]
       ELSE [n |-> i, ok |-> FALSE]
     ELSE IF cc = 0 THEN
       quickSpanLoop(f, src, n, atEOF, i + nf.size, i, cc, 0)
     ELSE quickSpanLoop(f, src, n, atEOF, i + nf.size, lastSegStart, cc,
                        nc + 1)

\* The body of the loop, lines 447-480, for the rune nf at i.
quickSpanRune(f, src, n, atEOF, i, lastSegStart, lastCC, nc, nf) ==
  LET cc == nf.props.ccc
      yes == IF composing(f) THEN nf.props.yesC ELSE nf.props.yesD
  IN IF nf.size = 0 THEN
       [n |-> IF atEOF THEN n ELSE lastSegStart, ok |-> TRUE]
     ELSE IF ~yes THEN
       IF composing(f) THEN [n |-> lastSegStart, ok |-> FALSE]
       ELSE [n |-> i, ok |-> FALSE]
     ELSE IF cc = 0 THEN
       quickSpanLoop(f, src, n, atEOF, i + nf.size, i, cc, 0)
     ELSE IF nc >= maxCombiningChars THEN
       quickSpanLoop(f, src, n, atEOF, i + nf.size, i, cc, 1)
     ELSE IF lastCC > cc THEN [n |-> lastSegStart, ok |-> FALSE]
     ELSE quickSpanLoop(f, src, n, atEOF, i + nf.size, lastSegStart, cc,
                        nc + 1)

\* The ASCII skip of lines 439-445 that found the end j of the run.
quickSpanSkipped(f, src, n, atEOF, i, lastSegStart, lastCC, nc, j) ==
  IF i # j THEN quickSpanLoop(f, src, n, atEOF, j, j - 1, 0, 0)
  ELSE quickSpanRune(f, src, n, atEOF, i, lastSegStart, lastCC, nc,
                     info(src, i))

quickSpanLoop(f, src, n, atEOF, i, lastSegStart, lastCC, nc) ==
  IF ~(i < n) THEN
    IF i = n THEN [n |-> IF ~atEOF THEN lastSegStart ELSE n, ok |-> TRUE]
    ELSE IF composing(f) THEN [n |-> lastSegStart, ok |-> FALSE]
    ELSE [n |-> i, ok |-> FALSE]
  ELSE quickSpanSkipped(f, src, n, atEOF, i, lastSegStart, lastCC, nc,
                        skipASCII(src, i, n))

quickSpan(f, src, i, end, atEOF) ==
  quickSpanLoop(f, src, end, atEOF, i, i, 0, 0)

\* ---------------------------------------------------------- reorder buffer
\* An entry is a rune with its bytes and properties.  The buffer holds one
\* segment: a starter and at most maxCombiningChars marks.
maxSegmentRunes == maxCombiningChars + 1

rbEntry(r, bytes) == [r |-> r, bytes |-> bytes, props |-> runeProps(r)]

\* insertOrdered: a stable insertion by combining class; a starter goes last.
RECURSIVE insertPos(_, _, _)
insertPos(rb, ccc, n) ==
  IF n > 0 /\ ccc > 0 /\ rb[n].props.ccc > ccc THEN insertPos(rb, ccc, n - 1)
  ELSE n

insertOrdered(rb, e) ==
  LET n == insertPos(rb, e.props.ccc, Len(rb))
  IN SubSeq(rb, 1, n) \o <<e>> \o SubSeq(rb, n + 1, Len(rb))

RECURSIVE insertDecomposed(_, _, _)
insertDecomposed(rb, dec, k) ==
  IF k > Len(dec) THEN rb
  ELSE insertDecomposed(insertOrdered(rb, rbEntry(dec[k], EncodeRune(dec[k]))),
                        dec, k + 1)

\* rb.insert: the rune's decomposition if it has one, else the rune itself;
\* ok is FALSE when the buffer cannot take it (iOverflow).
rbInsert(rb, nf) ==
  LET dec == nf.props.decomp
  IN IF Len(dec) > 0 THEN
       IF Len(rb) + Len(dec) > maxSegmentRunes THEN [ok |-> FALSE, rb |-> rb]
       ELSE [ok |-> TRUE, rb |-> insertDecomposed(rb, dec, 1)]
     ELSE IF Len(rb) + 1 > maxSegmentRunes THEN [ok |-> FALSE, rb |-> rb]
     ELSE [ok |-> TRUE, rb |-> insertOrdered(rb, rbEntry(nf.r, nf.bytes))]

\* rb.compose: the forward scan that combines a starter with the following
\* unblocked marks; b is the buffer, k the write index, s the last starter.
RECURSIVE composeLoop(_, _, _, _)
composeLoop(b, k, s, i) ==
  IF i > Len(b) THEN SubSeq(b, 1, k)
  ELSE
    LET ii == b[i]
        cccB == b[k].props.ccc
        cccC == ii.props.ccc
        s1 == IF ii.props.combinesBackward /\ cccB = 0 THEN k ELSE s
        blocked == ii.props.combinesBackward /\ cccB # 0
                   /\ s1 # k /\ cccB >= cccC
        combined == IF ii.props.combinesBackward /\ ~blocked
                    THEN combine(b[s1].r, ii.r) ELSE 0
    IN IF combined # 0
       THEN composeLoop([b EXCEPT ![s1] = rbEntry(combined, EncodeRune(combined))],
                        k, s1, i + 1)
       ELSE composeLoop([b EXCEPT ![k + 1] = ii], k + 1, s1, i + 1)

compose(rb) == IF Len(rb) = 0 THEN rb ELSE composeLoop(rb, 1, 1, 2)

\* The bytes a flush writes: the entries' bytes in buffer order.
RECURSIVE rbBytes(_)
rbBytes(rb) == IF Len(rb) = 0 THEN <<>> ELSE Head(rb).bytes \o rbBytes(Tail(rb))

\* doFlush: compose for a composing form, then emit.
flushBytes(f, rb) == rbBytes(IF composing(f) THEN compose(rb) ELSE rb)

\* ------------------------------------------------------- decomposeSegment
\* The insert loop of decomposeSegment from position sp with the rune nf at
\* sp: it stops when the buffer overflows, at the end of src, at an
\* incomplete rune and before a rune with BoundaryBefore.
RECURSIVE decomposeLoop(_, _, _, _)

\* Lines 603-613: the look at the rune nx at sp after an insert.
decomposeNext(src, sp, rb, nx) ==
  IF nx.size = 0 \/ BoundaryBefore(nx.props) THEN [end |-> sp, rb |-> rb]
  ELSE decomposeLoop(src, sp, nx, rb)

\* decomposeInserted that goes on to the next rune when the insert failed.
decomposeInsertedIgnoresOverflow(src, sp, nf, rb, ins) ==
  IF ~ins.ok THEN
    IF sp + nf.size >= Len(src) THEN [end |-> sp + nf.size, rb |-> rb]
    ELSE decomposeNext(src, sp + nf.size, rb, info(src, sp + nf.size))
  ELSE IF sp + nf.size >= Len(src) THEN [end |-> sp + nf.size, rb |-> ins.rb]
  ELSE decomposeNext(src, sp + nf.size, ins.rb, info(src, sp + nf.size))

\* Lines 593-602: after the insert ins of the rune nf at sp.
decomposeInserted(src, sp, nf, rb, ins) ==
  IF ~ins.ok THEN [end |-> sp, rb |-> rb]
  ELSE IF sp + nf.size >= Len(src) THEN [end |-> sp + nf.size, rb |-> ins.rb]
  ELSE decomposeNext(src, sp + nf.size, ins.rb, info(src, sp + nf.size))

decomposeLoop(src, sp, nf, rb) ==
  decomposeInserted(src, sp, nf, rb, rbInsert(rb, nf))

\* The first rune nf of the segment at sp, lines 588-591.
decomposeFirst(src, sp, nf) ==
  IF nf.size = 0 THEN [end |-> 0, rb |-> <<>>]
  ELSE decomposeLoop(src, sp, nf, <<>>)

\* decomposeSegment(rb, sp): the end of the segment that starts at sp and the
\* buffer holding it; 0 when the rune at sp is incomplete.
decomposeSegment(src, sp) == decomposeFirst(src, sp, info(src, sp))

\* decomposeSegment(&rb, nSrc) as Form.transform calls it, with two
\* arguments: it loads the segment into the buffer and leaves the flush to
\* its caller.  It stops where the loop above stops: an incomplete rune has
\* the zero Properties, for which BoundaryBefore holds.
loadSegment(src, sp) == decomposeSegment(src, sp)

\* ---------------------------------------------------------- Form.transform
\* The err a quickSpan that passed leaves in Form.transform, lines 168-172:
\* n is the number of bytes the last copy moved.
transformSpanErr(err, n, nsrc, atEOF) ==
  IF n < nsrc /\ ~atEOF THEN "ErrShortSrc" ELSE err

\* The loop of Form.transform from the state (nDst, nSrc, err).
RECURSIVE transformLoop(_, _, _, _, _, _, _)

\* Lines 164-173: copy the span q that quickSpan found and go on.
transformCopy(f, dst, src, atEOF, nDst, nSrc, err, q) ==
  LET span == Slice(src, nSrc, q.n)
      n == CopyLen(dst, nDst, span)
      dst2 == CopyAt(dst, nDst, span)
  IN IF q.ok
     THEN Result(nDst + n, nSrc + n,
                 transformSpanErr(err, n, Len(src), atEOF), dst2)
     ELSE transformLoop(f, dst2, src, atEOF, nDst + n, nSrc + n, err)

\* Lines 156-163: the next quickSpan, cut to the room left in dst.
transformSpan(f, dst, src, atEOF, nDst, nSrc, err) ==
  LET n0 == nSrc + Len(dst) - nDst
      cut == n0 < Len(src)
  IN transformCopy(f, dst, src, atEOF, nDst, nSrc,
                   IF cut THEN "ErrShortDst" ELSE err,
                   quickSpan(f, src, nSrc, IF cut THEN n0 ELSE Len(src),
                             IF cut THEN FALSE ELSE atEOF))

\* Lines 149-154: write the buffer rb out, if it fits, for the segment that
\* ends at end.
transformFlush(f, dst, src, atEOF, nDst, nSrc, err, end, rb) ==
  IF Len(dst) - nDst < Len(rb) * UTFMax
  THEN Result(nDst, nSrc, "ErrShortDst", dst)
  ELSE transformSpan(f, CopyAt(dst, nDst, rbBytes(rb)), src, atEOF,
                     nDst + Len(rbBytes(rb)), end, err)

\* transformSegment without the compose of lines 145-147.
transformSegmentNoCompose(f, dst, src, atEOF, nDst, nSrc, err, seg) ==
  IF seg.end = Len(src) /\ ~atEOF
  THEN Result(nDst, nSrc, "ErrShortSrc", dst)
  ELSE transformFlush(f, dst, src, atEOF, nDst, nSrc, err, seg.end, seg.rb)

\* Lines 142-147: the segment seg is loaded.
transformSegment(f, dst, src, atEOF, nDst, nSrc, err, seg) ==
  IF seg.end = Len(src) /\ ~atEOF
  THEN Result(nDst, nSrc, "ErrShortSrc", dst)
  ELSE transformFlush(f, dst, src, atEOF, nDst, nSrc, err, seg.end,
                      IF composing(f) THEN compose(seg.rb) ELSE seg.rb)

transformLoop(f, dst, src, atEOF, nDst, nSrc, err) ==
  transformSegment(f, dst, src, atEOF, nDst, nSrc, err,
                   loadSegment(src, nSrc))

transform(f, dst, src, atEOF) == transformLoop(f, dst, src, atEOF, 0, 0, "nil")

\* TransformSpanErr without the ErrShortSrc for an unconsumed rest.
TransformSpanErrKeepsErr(err, n, src, atEOF) == err

\* The err of Form.Transform when the first quickSpan passed, lines 127-130.
TransformSpanErr(err, n, src, atEOF) ==
  IF n < Len(src) /\ ~atEOF THEN "ErrShortSrc" ELSE err

\* Lines 124-125: the results of Form.transform on dst[n:], src[n:].
TransformRest(dst, n, t) ==
  Result(t.nDst + n, t.nSrc + n, t.err, SubSeq(dst, 1, n) \o t.dst)

\* Lines 122-130: copy the span q of b that quickSpan found and go on.
TransformCopy(f, dst, src, atEOF, b, err, q) ==
  LET n == CopyLen(dst, 0, Slice(b, 0, q.n))
      dst1 == CopyAt(dst, 0, Slice(b, 0, q.n))
  IN IF ~q.ok
     THEN TransformRest(dst1, n,
                        transform(f, From(dst1, n), From(src, n), atEOF))
     ELSE Result(n, n, TransformSpanErr(err, n, src, atEOF), dst1)

\* Form.Transform
FormTransform(f, dst, src, atEOF) ==
  LET cut == Len(dst) < Len(src)
      b == IF cut THEN Slice(src, 0, Len(dst)) ELSE src
  IN TransformCopy(f, dst, src, atEOF, b,
                   IF cut THEN "ErrShortDst" ELSE "nil",
                   quickSpan(f, b, 0, Len(b), IF cut THEN FALSE ELSE atEOF))

\* ------------------------------------------------------------- Form.Append
\* Line 342: append the span q that quickSpan found from i.
appendSpan(src, out, i, q) == [p |-> q.n, out |-> out \o Slice(src, i, q.n)]

\* appendQuick
appendQuick(f, src, out, i) ==
  IF Len(src) = i THEN [p |-> i, out |-> out]
  ELSE appendSpan(src, out, i, quickSpan(f, src, i, Len(src), TRUE))

\* doAppendInner: decompose a segment, flush it, append the next quick span.
RECURSIVE doAppendInner(_, _, _, _)

\* The state (out, p) after an appendQuick.
doAppendNext(f, src, a) == doAppendInner(f, src, a.out, a.p)

\* Lines 411-412: the segment seg is flushed, then appendQuick.
doAppendSegment(f, src, out, seg) ==
  doAppendNext(f, src,
               appendQuick(f, src, out \o flushBytes(f, seg.rb), seg.end))

doAppendInner(f, src, out, p) ==
  IF ~(p < Len(src)) THEN out
  ELSE doAppendSegment(f, src, out, decomposeSegment(src, p))

\* Lines 358-364: the first quickSpan q of doAppend.
doAppendFirst(f, src, q) ==
  IF q.n = Len(src) THEN Slice(src, 0, q.n)
  ELSE doAppendInner(f, src, Slice(src, 0, q.n), q.n)

\* Form.Append(nil, src...)
FormAppend(f, src) ==
  IF Len(src) = 0 THEN <<>>
  ELSE doAppendFirst(f, src, quickSpan(f, src, 0, Len(src), TRUE))

\* ------------------------------------------------------- transform.Reader
\* The transformers the Reader's tests drive it with.
\* lowerCaseASCII.Transform: the first n bytes of src, lower-cased, where n
\* is len(src) cut to len(dst).
lowerCaseASCII(dst, src, atEOF) ==
  LET n == Min(Len(src), Len(dst))
      err == IF Len(src) > Len(dst) THEN "ErrShortDst" ELSE "nil"
      low == [i \in 1..n |->
                IF 65 <= src[i] /\ src[i] <= 90 THEN src[i] + 32 ELSE src[i]]
  IN Result(n, n, err, CopyAt(dst, 0, low))

isDigit(c) == 48 <= c /\ c <= 57

\* The inner loop of rleDecode over src[nSrc:] from offset i with the count
\* n read so far: the offset of the first byte that is no digit and the
\* count before it, or found = FALSE when only digits are left.
RECURSIVE rleScan(_, _, _, _)
rleScan(src, nSrc, i, n) ==
  IF nSrc + i >= Len(src) THEN [found |-> FALSE, i |-> i, n |-> n]
  ELSE LET c == src[nSrc + i + 1]
       IN IF isDigit(c) THEN rleScan(src, nSrc, i + 1, 10 * n + (c - 48))
          ELSE [found |-> TRUE, i |-> i, n |-> n]

RECURSIVE rleLoop(_, _, _, _, _)
rleLoop(dst, src, atEOF, nDst, nSrc) ==
  IF ~(Len(src) - nSrc > 0) THEN Result(nDst, nSrc, "nil", dst)
  ELSE
    LET sc == rleScan(src, nSrc, 0, 0)
    IN IF ~sc.found
       THEN Result(nDst, nSrc,
                   IF atEOF THEN "errBadInput" ELSE "ErrShortSrc", dst)
       ELSE IF sc.i = 0 THEN Result(nDst, nSrc, "errBadInput", dst)
       ELSE IF sc.n > Len(dst) - nDst
       THEN Result(nDst, nSrc, "ErrShortDst", dst)
       ELSE rleLoop(CopyAt(dst, nDst, [j \in 1..sc.n |-> src[nSrc + sc.i + 1]]),
                    src, atEOF, nDst + sc.n, nSrc + sc.i + 1)

\* rleDecode.Transform
rleDecode(dst, src, atEOF) == rleLoop(dst, src, atEOF, 0, 0)

\* orbitCase on an ASCII byte: a lower-case letter to upper case, any other
\* byte to lower
orbitCase(c) ==
  IF 97 <= c /\ c <= 122 THEN c - 32
  ELSE IF 65 <= c /\ c <= 90 THEN c + 32
  ELSE c

\* copyOrbit.Transform: what fits of src, each byte through orbitCase, and
\* always a nil error.
copyOrbit(dst, src, atEOF) ==
  LET n == Min(Len(dst), Len(src))
  IN Result(n, n, "nil", CopyAt(dst, 0, [i \in 1..n |-> orbitCase(src[i])]))

\* r.t.Transform for the transformer named t.
readerT(t, dst, src, atEOF) ==
  IF t = "rleDecode" THEN rleDecode(dst, src, atEOF)
  ELSE IF t = "copyOrbit" THEN copyOrbit(dst, src, atEOF)
  ELSE lowerCaseASCII(dst, src, atEOF)

\* make([]byte, n)
MakeBytes(n) == [i \in 1..n |-> 0]

\* NewReader, with staging buffers of the given sizes.
NewReader(dstSize, srcSize) ==
  [err |-> "nil", dst |-> MakeBytes(dstSize), dst0 |-> 0, dst1 |-> 0,
   src |-> MakeBytes(srcSize), src0 |-> 0, src1 |-> 0,
   transformComplete |-> FALSE]

\* The Reader outside a Reader run.
NoReader == NewReader(0, 0)

\* The byte source and the caller of Read: rest is what the source has not
\* delivered yet, srcErr the error its last Read returned, taken the bytes it
\* has delivered, eaten the sum of the nSrc of the Transform calls, last the
\* result of the last Transform call, p the len(p) of the Read in progress,
\* ret what the last Read returned, got the bytes Read has copied out, made
\* the bytes dst[:nDst] of the Transform calls, one call after the other.
NewSource(x) ==
  [rest |-> x, srcErr |-> "nil", taken |-> <<>>, eaten |-> 0,
   last |-> [nDst |-> 0, nSrc |-> 0, err |-> "none"], p |-> 0,
   ret |-> [n |-> 0, err |-> "nil"], got |-> <<>>, made |-> <<>>]

NoSource == NewSource(<<>>)

\* readSwitch without the case that keeps going after ErrShortDst.
readSwitchNoRetry(err, dst1, src0, src1, srcLen, rErr) ==
  IF err = "nil" THEN "success"
  ELSE IF err = "ErrShortSrc" /\ src1 - src0 # srcLen /\ rErr = "nil"
    THEN "refill"
  ELSE "default"

\* readSwitch without the case that reads more after ErrShortSrc.
readSwitchNoRefill(err, dst1, src0, src1, srcLen, rErr) ==
  IF err = "nil" THEN "success"
  ELSE IF err = "ErrShortDst" /\ dst1 # 0 THEN "retry"
  ELSE "default"

\* copyOutErr that returns the recorded error as soon as the transformation
\* is complete.
copyOutErrEarly(dst0, dst1, complete, err) ==
  IF complete THEN err ELSE "nil"

\* Lines 187-190: the error Read returns with the bytes it copied out.
copyOutErr(dst0, dst1, complete, err) ==
  IF dst0 = dst1 /\ complete THEN err ELSE "nil"

\* readBranch without the return of the recorded error.
readBranchNoReturn(r) ==
  IF r.dst0 # r.dst1 THEN "copy"
  ELSE IF r.src0 # r.src1 \/ r.err # "nil" THEN "transform"
  ELSE "fill"

\* Lines 184-199: what one turn of the loop of Read does with the Reader r.
readBranch(r) ==
  IF r.dst0 # r.dst1 THEN "copy"
  ELSE IF r.transformComplete THEN "return"
  ELSE IF r.src0 # r.src1 \/ r.err # "nil" THEN "transform"
  ELSE "fill"

\* slidePending that forgets the pending bytes.
slidePendingDrops(r) ==
  IF r.src0 # 0 THEN [r EXCEPT !.src0 = 0, !.src1 = 0] ELSE r

\* slidePending that moves the pending bytes and leaves src0 where it was.
slidePendingKeepsStart(r) ==
  IF r.src0 # 0
  THEN [r EXCEPT !.src = CopyAt(@, 0, Slice(r.src, r.src0, r.src1)),
                 !.src1 = r.src1 - r.src0]
  ELSE r

\* Lines 231-233: the pending bytes moved to the front of src.
slidePending(r) ==
  IF r.src0 # 0
  THEN [r EXCEPT !.src = CopyAt(@, 0, Slice(r.src, r.src0, r.src1)),
                 !.src0 = 0, !.src1 = r.src1 - r.src0]
  ELSE r

\* The switch of Read on the error of Transform: which case is taken.
readSwitch(err, dst1, src0, src1, srcLen, rErr) ==
  IF err = "nil" THEN "success"
  ELSE IF err = "ErrShortDst" /\ dst1 # 0 THEN "retry"
  ELSE IF err = "ErrShortSrc" /\ src1 - src0 # srcLen /\ rErr = "nil"
    THEN "refill"
  ELSE "default"

\* ------------------------------------------------------------ call harness
\* One Transform call on a fresh destination: the inputs are drawn from the
\* byte alphabets below, the result is recorded in callRes.
FoldBytes == {97, 239, 191, 160}
ValidatorBytes == {97, 196, 128, 241}
CheckerBytes == {97, 195, 160, 32}
EucJPBytes == {65, 142, 143, 164, 162}
EucKRBytes == {65, 176, 161}

\* Normalization inputs are runs of these runes and ill-formed bytes: a,
\* U+0300, U+0320, U+0340, U+0360, U+00E0 and a lone lead byte.
NormTokens ==
  {<<97>>, <<204, 128>>, <<204, 160>>, <<205, 128>>, <<205, 160>>,
   <<195, 160>>, <<204>>}

RECURSIVE Flatten(_)
Flatten(ss) == IF Len(ss) = 0 THEN <<>> ELSE Head(ss) \o Flatten(Tail(ss))

NormInputs == {Flatten(ts) : ts \in SeqsUpTo(NormTokens, MaxRunes)}

NormDstCaps == {1, 2, 4, 8, 12, 32}

Forms == {"NFC", "NFD"}

Called(t, n, src, eof, res) ==
  /\ phase' = "done"
  /\ callT' = t
  /\ callDst' = n
  /\ callSrc' = src
  /\ callEOF' = eof
  /\ callRes' = res
  /\ UNCHANGED <<sessVars, readerVars>>
  /\ UNCHANGED otherVars

FoldCall ==
  /\ phase = "idle"
  /\ \E src \in SeqsUpTo(FoldBytes, MaxSrcLen), n \in 0..MaxDstLen, eof \in BOOLEAN :
       Called("fold", n, src, eof, foldTransform(NewBuf(n), src, eof))

ValidatorCall ==
  /\ phase = "idle"
  /\ \E src \in SeqsUpTo(ValidatorBytes, MaxSrcLen), n \in 0..MaxDstLen,
        eof \in BOOLEAN :
       Called("utf8Validator", n, src, eof,
              utf8ValidatorTransform(NewBuf(n), src, eof))

CheckerCall ==
  /\ phase = "idle"
  /\ \E class \in {"identifier", "freeform"},
        src \in SeqsUpTo(CheckerBytes, MaxSrcLen), n \in 0..MaxDstLen,
        eof \in BOOLEAN :
       Called(class, n, src, eof, checkerTransform(class, NewBuf(n), src, eof))

EucJPCall ==
  /\ phase = "idle"
  /\ \E src \in SeqsUpTo(EucJPBytes, MaxSrcLen), n \in 0..MaxDstLen,
        eof \in BOOLEAN :
       Called("eucJP", n, src, eof, eucJPDecoderTransform(NewBuf(n), src, eof))

EucKRCall ==
  /\ phase = "idle"
  /\ \E src \in SeqsUpTo(EucKRBytes, MaxSrcLen), n \in 0..MaxDstLen,
        eof \in BOOLEAN :
       Called("eucKR", n, src, eof, eucKRDecoderTransform(NewBuf(n), src, eof))

NormCall ==
  /\ phase = "idle"
  /\ \E f \in Forms, src \in NormInputs, n \in NormDstCaps, eof \in BOOLEAN :
       Called(f, n, src, eof, FormTransform(f, NewBuf(n), src, eof))

\* A starter followed by a long run of combining marks: a, then U+0300
\* (class 230), U+0320 (class 220) up to twice, and U+0300 again, from one
\* mark less than maxCombiningChars to MaxMarks marks in all.
MaxMarks == 32

RECURSIVE Repeat(_, _)
Repeat(tok, n) == IF n = 0 THEN <<>> ELSE tok \o Repeat(tok, n - 1)

LongRun(i, j, k) ==
  <<97>> \o Repeat(<<204, 128>>, i) \o Repeat(<<204, 160>>, j)
         \o Repeat(<<204, 128>>, k)

LongInputs ==
  UNION {UNION {{LongRun(i, j, n - i - j) : j \in 0..Min(2, n - i)}
                : i \in 0..n}
         : n \in (maxCombiningChars - 1)..MaxMarks}

\* A destination with room for every flush of a long run.
LongDstCap == UTFMax * (MaxMarks + 2)

\* One call on a long run, at end of input.
LongNormCall ==
  /\ phase = "idle"
  /\ \E f \in Forms, src \in LongInputs :
       Called(f, LongDstCap, src, TRUE,
              FormTransform(f, NewBuf(LongDstCap), src, TRUE))

\* --------------------------------------------------------- transform.Chain
\* The chain Profile.NewTransformer builds for a profile without further
\* options: the normalization form, then the checker of the string class.
\* A call threads what the first stage writes through an intermediate
\* buffer of midCap bytes into the second stage.  The state c of a call:
\* p the source bytes stage 1 has consumed, mid the bytes in the
\* intermediate buffer, out the bytes written to dst, e1 and e2 the error
\* of the last call of each stage, rounds the calls of stage 1.
chainStage(t, dst, src, atEOF) ==
  IF t \in Forms THEN FormTransform(t, dst, src, atEOF)
  ELSE checkerTransform(t, dst, src, atEOF)

\* What the chain returns.
chainEnd(c, err) ==
  [nDst |-> c.out, nSrc |-> c.p, err |-> err, dst |-> c.dst,
   e1 |-> c.e1, e2 |-> c.e2, mid |-> c.mid, rounds |-> c.rounds]

\* chainFinishErr that reports the last stage only.
chainFinishErrLastStage(e1, e2) == e2

\* The error of a chain whose stages have both stopped: that of the first
\* stage unless it reported nil.
chainFinishErr(e1, e2) == IF e1 # "nil" THEN e1 ELSE e2

RECURSIVE chainFeed(_, _, _, _, _, _)

\* Stage 2 has returned r for the intermediate bytes; stalled says that
\* stage 1 made no progress before it.
chainDrained(t1, t2, midCap, src, atEOF, c, stalled, r) ==
  LET c2 == [c EXCEPT !.dst = SubSeq(c.dst, 1, c.out) \o r.dst,
                      !.out = @ + r.nDst,
                      !.mid = From(@, r.nSrc),
                      !.e2 = r.err]
  IN IF r.err \notin {"nil", "ErrShortSrc"} THEN chainEnd(c2, r.err)
     ELSE IF c.e1 # "ErrShortDst"
       THEN chainEnd(c2, chainFinishErr(c.e1, r.err))
     ELSE IF stalled /\ r.nSrc = 0 /\ r.nDst = 0
       THEN chainEnd(c2, "errShortInternal")
     ELSE chainFeed(t1, t2, midCap, src, atEOF, c2)

\* Stage 1 has returned r for the unconsumed source.
chainFed(t1, t2, midCap, src, atEOF, c, r) ==
  LET c1 == [c EXCEPT !.p = @ + r.nSrc,
                      !.mid = @ \o SubSeq(r.dst, 1, r.nDst),
                      !.e1 = r.err,
                      !.rounds = @ + 1]
  IN IF r.err = "ErrShortDst" /\ c1.mid = <<>>
     THEN chainEnd(c1, "errShortInternal")
     ELSE chainDrained(t1, t2, midCap, src, atEOF, c1,
                       r.nDst = 0 /\ r.nSrc = 0,
                       chainStage(t2, From(c1.dst, c1.out), c1.mid,
                                  atEOF /\ r.err = "nil"))

chainFeed(t1, t2, midCap, src, atEOF, c) ==
  chainFed(t1, t2, midCap, src, atEOF, c,
           chainStage(t1, NewBuf(midCap - Len(c.mid)), From(src, c.p), atEOF))

\* chain.Transform
chainTransform(t1, t2, midCap, dst, src, atEOF) ==
  chainFeed(t1, t2, midCap, src, atEOF,
            [p |-> 0, mid |-> <<>>, out |-> 0, dst |-> dst,
             e1 |-> "none", e2 |-> "none", rounds |-> 0])

ChainTokens == {<<97>>, <<195, 160>>, <<204, 128>>, <<204>>, <<32>>}

MaxChainRunes == 3

ChainInputs == {Flatten(ts) : ts \in SeqsUpTo(ChainTokens, MaxChainRunes)}

ChainMidCaps == {4, 8}

ChainDstCaps == {0, 1, 2, 4, 8}

\* One call of the chain of a form and a checker on a fresh destination.
ChainCall ==
  /\ phase = "idle"
  /\ \E f \in Forms, class \in {"identifier", "freeform"},
        src \in ChainInputs, n \in ChainDstCaps, m \in ChainMidCaps,
        eof \in BOOLEAN :
       /\ callT' = "Chain"
       /\ callDst' = n
       /\ callSrc' = src
       /\ callEOF' = eof
       /\ callRes' = [stages |-> <<f, class>>, midCap |-> m]
                      @@ chainTransform(f, class, m, NewBuf(n), src, eof)
  /\ phase' = "chained"
  /\ UNCHANGED <<sessVars, readerVars>>
  /\ UNCHANGED otherVars

\* ---------------------------------------------------------- precis.Profile
\* A profile p is its string class and its options: foldWidth, norm,
\* ignorecase and disallowEmpty; the other options are unset.

\* The capacity transform.Append grows its destination to.
AppendCap == 16

\* transform.Append(t, nil, src) and transform.String(t, s): the whole of
\* src transformed at EOF into a destination that is large enough; r is
\* what the Transform call returned.
appendResult(r) == [b |-> SubSeq(r.dst, 1, r.nDst), err |-> r.err]

transformAppend(t, src) ==
  appendResult(IF t = "fold" THEN foldTransform(NewBuf(AppendCap), src, TRUE)
               ELSE FormTransform(t, NewBuf(AppendCap), src, TRUE))

\* checker.span at EOF: the error for the first rune outside the class.
RECURSIVE checkerSpan(_, _, _)
checkerSpan(class, src, n) ==
  IF n >= Len(src) THEN "nil"
  ELSE LET d == DecodeRune(From(src, n))
       IN IF d.size = 0 \/ ~allowedContains(class, d.r)
          THEN "errDisallowedRune"
          ELSE checkerSpan(class, src, n + d.size)

\* buffers.enforce, from the result s2 of applying the form.
enforceNormalized(p, s2) ==
  IF s2.err # "nil" THEN [b |-> <<>>, err |-> s2.err]
  ELSE IF checkerSpan(p.class, s2.b, 0) # "nil"
    THEN [b |-> <<>>, err |-> "errDisallowedRune"]
  ELSE IF p.disallowEmpty /\ Len(s2.b) = 0
    THEN [b |-> <<>>, err |-> "errEmptyString"]
  ELSE [b |-> s2.b, err |-> "nil"]

\* buffers.enforce, from the result s1 of applying the width fold.
enforceFolded(p, s1) ==
  IF s1.err # "nil" THEN [b |-> <<>>, err |-> s1.err]
  ELSE enforceNormalized(p, transformAppend(p.norm, s1.b))

\* buffers.enforce
enforce(p, src) ==
  IF p.foldWidth THEN enforceFolded(p, transformAppend("fold", src))
  ELSE enforceNormalized(p, transformAppend(p.norm, src))

\* Profile.String
ProfileString(p, s) == enforce(p, s)

\* width.Transformer.String of the fold: the error is dropped.
FoldString(s) == transformAppend("fold", s).b

\* The comparison of Profile.Compare with ignorecase: a1 is the folded a,
\* and b is assigned the fold of a1.
compareFolded(a1) == a1 = FoldString(a1)

\* Profile.Compare after a has been enforced to ea and b to eb.
compareSecond(p, ea, eb) ==
  IF eb.err # "nil" THEN FALSE
  ELSE IF p.ignorecase THEN compareFolded(FoldString(ea.b))
  ELSE ea.b = eb.b

\* Profile.Compare after a has been enforced to ea.
compareFirst(p, ea, b) ==
  IF ea.err # "nil" THEN FALSE ELSE compareSecond(p, ea, ProfileString(p, b))

\* Profile.Compare
Compare(p, a, b) == compareFirst(p, ProfileString(p, a), b)

Profiles ==
  [class : {"identifier", "freeform"}, foldWidth : BOOLEAN, norm : Forms,
   ignorecase : BOOLEAN, disallowEmpty : BOOLEAN]

\* a, U+00E0, U+0300 and U+FF41 (fullwidth a).
CompareTokens == {<<97>>, <<195, 160>>, <<204, 128>>, <<239, 189, 129>>}

MaxCompareRunes == 2

CompareInputs ==
  {Flatten(ts) : ts \in SeqsUpTo(CompareTokens, MaxCompareRunes)}

\* One call of Profile.Compare; callRes keeps the profile, the result of
\* the call and that of the call with the strings exchanged.
CompareCall ==
  /\ phase = "idle"
  /\ \E p \in Profiles, a \in CompareInputs, b \in CompareInputs :
       /\ callT' = "Compare"
       /\ callSrc' = <<a, b>>
       /\ callRes' = [p |-> p, result |-> Compare(p, a, b),
                      swapped |-> Compare(p, b, a)]
  /\ callDst' = 0
  /\ callEOF' = TRUE
  /\ phase' = "compared"
  /\ UNCHANGED <<sessVars, readerVars>>
  /\ UNCHANGED otherVars

\* doAppend(rb, out, p) for p at the start of a rune (the inputs have no
\* stray continuation byte, so skipNonStarter(p) = p) and an empty reorder
\* buffer: with out not empty and no rune at p the rest of src is appended,
\* otherwise appendQuick and doAppendInner follow.
doAppend(f, src, out, p) ==
  IF Len(out) > 0 /\ (~(p < Len(src)) \/ info(src, p).size = 0)
  THEN out \o Slice(src, p, Len(src))
  ELSE doAppendNext(f, src, appendQuick(f, src, out, p))

\* Lines 229-236: q is the quick span of the whole string.
stringSpanned(f, s, q) ==
  IF q.ok THEN s ELSE doAppend(f, s, Slice(s, 0, q.n), q.n)

\* Form.String and Form.Bytes: f(s).
FormString(f, s) == stringSpanned(f, s, quickSpan(f, s, 0, Len(s), TRUE))

\* The result of normalizing s and that of normalizing the result again.
stringTwice(f, once) == [once |-> once, twice |-> FormString(f, once)]

\* One call of Form.String, and one more on what it returned.
StringCall ==
  /\ phase = "idle"
  /\ \E f \in Forms, s \in NormInputs \cup LongInputs :
       /\ callT' = f
       /\ callSrc' = s
       /\ callRes' = stringTwice(f, FormString(f, s))
  /\ callDst' = 0
  /\ callEOF' = TRUE
  /\ phase' = "normalized"
  /\ UNCHANGED <<sessVars, readerVars>>
  /\ UNCHANGED otherVars

\* Form.QuickSpan
FormQuickSpan(f, b) == quickSpan(f, b, 0, Len(b), TRUE).n

\* One call of Form.QuickSpan.
QuickSpanCall ==
  /\ phase = "idle"
  /\ \E f \in Forms, b \in NormInputs \cup LongInputs :
       /\ callT' = f
       /\ callSrc' = b
       /\ callRes' = [n |-> FormQuickSpan(f, b)]
  /\ callDst' = 0
  /\ callEOF' = TRUE
  /\ phase' = "spanned"
  /\ UNCHANGED <<sessVars, readerVars>>
  /\ UNCHANGED otherVars

Init ==
  /\ phase = "idle"
  /\ callT = "none"
  /\ callDst = 0
  /\ callSrc = <<>>
  /\ callEOF = FALSE
  /\ callRes = Result(0, 0, "nil", <<>>)
  /\ sessIn = <<>>
  /\ sessFed = 0
  /\ sessPos = 0
  /\ sessOut = <<>>
  /\ reader = NoReader
  /\ source = NoSource
  /\ iter = NoIter
  /\ idna = NoLabel

Next ==
  \/ FoldCall
  \/ ValidatorCall
  \/ CheckerCall
  \/ EucJPCall
  \/ EucKRCall
  \/ NormCall
  \/ LongNormCall
  \/ CompareCall
  \/ StringCall
  \/ QuickSpanCall
  \/ ChainCall

Spec == Init /\ [][Next]_vars

\* --------------------------------------------------- normalization session
\* A caller that owns the whole input, supplies it in chunks and calls
\* Form.Transform on the unconsumed part until it returns nil at end of
\* input.  The session is stuck when a call at end of input makes no
\* progress.
\* Session inputs are runs of a, U+0320, U+0340, U+0360 and U+00E0; the
\* chunks may end anywhere, also inside a rune.
SessTokens ==
  {<<97>>, <<204, 160>>, <<205, 128>>, <<205, 160>>, <<195, 160>>}

SessInputs == {Flatten(ts) : ts \in SeqsUpTo(SessTokens, MaxRunes)}

SessDstCaps == {4, 8}

NormStart ==
  /\ phase = "normIdle"
  /\ \E f \in Forms, x \in SessInputs, n \in SessDstCaps :
       /\ callT' = f
       /\ callDst' = n
       /\ sessIn' = x
  /\ phase' = "norm"
  /\ UNCHANGED <<callSrc, callEOF, callRes, sessFed, sessPos, sessOut>>
  /\ UNCHANGED readerVars
  /\ UNCHANGED otherVars

\* Supply k more bytes and call Transform on the supplied, unconsumed bytes.
NormStep ==
  /\ phase = "norm"
  /\ \E k \in 0..(Len(sessIn) - sessFed) :
       LET fed1 == sessFed + k
           src == Slice(sessIn, sessPos, fed1)
           eof == fed1 = Len(sessIn)
           res == FormTransform(callT, NewBuf(callDst), src, eof)
       IN /\ sessFed' = fed1
          /\ callSrc' = src
          /\ callEOF' = eof
          /\ callRes' = res
          /\ sessPos' = sessPos + res.nSrc
          /\ sessOut' = sessOut \o SubSeq(res.dst, 1, res.nDst)
          /\ phase' = IF res.err = "nil" /\ eof THEN "normDone"
                       ELSE IF res.nDst = 0 /\ res.nSrc = 0 /\ eof
                         THEN "normStuck"
                       ELSE "norm"
  /\ UNCHANGED <<callT, callDst, sessIn, readerVars>>
  /\ UNCHANGED otherVars

InitNorm ==
  /\ phase = "normIdle"
  /\ callT = "none"
  /\ callDst = 0
  /\ callSrc = <<>>
  /\ callEOF = FALSE
  /\ callRes = Result(0, 0, "nil", <<>>)
  /\ sessIn = <<>>
  /\ sessFed = 0
  /\ sessPos = 0
  /\ sessOut = <<>>
  /\ reader = NoReader
  /\ source = NoSource
  /\ iter = NoIter
  /\ idna = NoLabel

NextNorm ==
  \/ NormStart
  \/ NormStep

SpecNorm == InitNorm /\ [][NextNorm]_vars

\* -------------------------------------------------------------- Reader run
\* A Reader over a byte source that delivers its stream in reads of any
\* size and may end it with io.EOF, with or without bytes, or fail.  Read is
\* followed through its loop: phase is "rdIdle" between calls of Read,
\* "rdLoop" at the top of the loop and "rdFill" before the read of more
\* source bytes.
ReaderBytes == {49, 65}

ReaderInputs == SeqsUpTo(ReaderBytes, MaxStream)

ReaderTs == {"rleDecode", "lowerCaseASCII", "copyOrbit"}

\* A caller calls Read with a buffer p of plen bytes.
ReadCall ==
  /\ phase = "rdIdle"
  /\ \E plen \in 1..MaxRead : source' = [source EXCEPT !.p = plen]
  /\ phase' = "rdLoop"
  /\ UNCHANGED <<callVars, sessVars, reader>>
  /\ UNCHANGED otherVars

\* Lines 184-190 for the Reader r and its caller s: copy transformed bytes
\* out and return.
readCopyOut(r, s) ==
  LET n == Min(s.p, r.dst1 - r.dst0)
      dst0 == r.dst0 + n
      err == copyOutErr(dst0, r.dst1, r.transformComplete, r.err)
  IN [r |-> [r EXCEPT !.dst0 = dst0],
      s |-> [s EXCEPT !.ret = [n |-> n, err |-> err],
                      !.got = @ \o Slice(r.dst, r.dst0, dst0)]]

\* Lines 191-193: Read returns the recorded error.
readReturnErr(r, s) ==
  [r |-> r, s |-> [s EXCEPT !.ret = [n |-> 0, err |-> r.err]]]

\* The success case marking the transformation complete whatever r.err is.
successCompleteAlways(err) == TRUE

\* Line 211: r.transformComplete = r.err != nil
successComplete(err) == err # "nil"

\* Lines 199-227 with the transformer t: transform the pending source bytes
\* and act on the error; case is the case of the switch that was taken.
readTransform(t, r, s) ==
  LET res == readerT(t, r.dst, Slice(r.src, r.src0, r.src1), r.err = "EOF")
      src0 == r.src0 + res.nSrc
      case == readSwitch(res.err, res.nDst, src0, r.src1, Len(r.src), r.err)
      r1 == [r EXCEPT !.dst = res.dst, !.dst0 = 0, !.dst1 = res.nDst,
                      !.src0 = src0]
      inconsistent == IF src0 # r.src1 THEN "errInconsistentNSrc" ELSE r.err
  IN [r |-> IF case = "success"
            THEN [r1 EXCEPT !.err = inconsistent,
                            !.transformComplete = successComplete(inconsistent)]
            ELSE IF case = "default"
            THEN [r1 EXCEPT !.transformComplete = TRUE,
                            !.err = IF r.err \in {"nil", "EOF"}
                                    THEN res.err ELSE r.err]
            ELSE r1,
      s |-> [s EXCEPT !.eaten = @ + res.nSrc,
                      !.made = @ \o SubSeq(res.dst, 1, res.nDst),
                      !.last = [nDst |-> res.nDst, nSrc |-> res.nSrc,
                                err |-> res.err]],
      case |-> case]

\* The free bytes of src after the pending bytes have been moved.
fillRoom(r) == Len(r.src) - (r.src1 - r.src0)

\* Lines 229-235: move the pending bytes to the front of src and read after
\* them; the byte source delivers k bytes and the error e.
readFill(r, s, k, e) ==
  LET slid == slidePending(r)
      bytes == SubSeq(s.rest, 1, k)
  IN [r |-> [slid EXCEPT !.src = CopyAt(@, slid.src1, bytes),
                         !.src1 = @ + k, !.err = e],
      s |-> [s EXCEPT !.rest = From(@, k), !.taken = @ \o bytes,
                      !.srcErr = e]]

\* Lines 184-190: copy transformed bytes out and return.
ReadCopyOut ==
  /\ phase = "rdLoop"
  /\ readBranch(reader) = "copy"
  /\ reader' = readCopyOut(reader, source).r
  /\ source' = readCopyOut(reader, source).s
  /\ phase' = "rdIdle"
  /\ UNCHANGED <<callVars, sessVars>>
  /\ UNCHANGED otherVars

\* Lines 191-193: nothing to copy and the transformation is complete.
ReadReturnErr ==
  /\ phase = "rdLoop"
  /\ readBranch(reader) = "return"
  /\ source' = readReturnErr(reader, source).s
  /\ phase' = "rdIdle"
  /\ UNCHANGED <<callVars, sessVars, reader>>
  /\ UNCHANGED otherVars

\* Lines 199-227: transform the pending source bytes and act on the error.
ReadTransform ==
  /\ phase = "rdLoop"
  /\ readBranch(reader) = "transform"
  /\ \E o \in {readTransform(callT, reader, source)} :
       /\ reader' = o.r
       /\ source' = o.s
       /\ phase' = IF o.case = "refill" THEN "rdFill" ELSE "rdLoop"
  /\ UNCHANGED <<callVars, sessVars>>
  /\ UNCHANGED otherVars

\* The errors a read of k bytes from the byte source s may return.
sourceErrs(s, k) ==
  {"nil", "errIO"} \cup (IF k = Len(s.rest) THEN {"EOF"} ELSE {})

SourceErrs(k) == sourceErrs(source, k)

\* Lines 229-235: move the pending bytes to the front of src and read more
\* bytes after them.
ReadFill ==
  /\ \/ phase = "rdFill"
     \/ /\ phase = "rdLoop"
        /\ readBranch(reader) = "fill"
  /\ \E k \in 0..Min(fillRoom(reader), Len(source.rest)) :
       \E e \in SourceErrs(k) :
         \E o \in {readFill(reader, source, k, e)} :
           /\ reader' = o.r
           /\ source' = o.s
  /\ phase' = "rdLoop"
  /\ UNCHANGED <<callVars, sessVars>>
  /\ UNCHANGED otherVars

InitReader ==
  /\ phase = "rdIdle"
  /\ callT \in ReaderTs
  /\ callDst = 0
  /\ callSrc = <<>>
  /\ callEOF = FALSE
  /\ callRes = Result(0, 0, "nil", <<>>)
  /\ sessIn = <<>>
  /\ sessFed = 0
  /\ sessPos = 0
  /\ sessOut = <<>>
  /\ \E dstSize \in 1..MaxStage, srcSize \in 1..MaxStage :
       reader = NewReader(dstSize, srcSize)
  /\ \E x \in ReaderInputs : source = NewSource(x)
  /\ iter = NoIter
  /\ idna = NoLabel

NextReader ==
  \/ ReadCall
  \/ ReadCopyOut
  \/ ReadReturnErr
  \/ ReadTransform
  \/ ReadFill

SpecReader == InitReader /\ [][NextReader]_vars

\* ------------------------------------------------------------ two Readers
\* Two Readers, each made by its own NewReader over its own byte source and
\* each with its own caller, take the turns of their Read loops in any
\* order.  The staging buffers live in a heap of byte arrays and a Reader
\* holds the places of its two arrays, as a Go slice refers to its backing
\* array.  In this run reader is the heap and the two Readers, source the
\* two sources and callers, phase and callT hold one entry per Reader,
\* callRes the sizes each Reader was made with and the len(p) of its
\* caller, sessIn the two streams and sessPos the steps each has taken.
\* A source delivers as many bytes as the Reader has room for and reports
\* io.EOF with its last bytes.
PairStage == {1, 2}

PairInputs == {<<49, 65>>, <<65, 65>>}

MaxPairSteps == 40

\* NewReader that takes staging buffers of the wanted sizes from the ones
\* already handed out.
newReaderPooled(heap, dstSize, srcSize) ==
  IF Len(heap) >= 2 /\ Len(heap[1]) = dstSize /\ Len(heap[2]) = srcSize
  THEN [heap |-> heap,
        r |-> [NewReader(dstSize, srcSize) EXCEPT !.dst = 1, !.src = 2]]
  ELSE [heap |-> heap \o <<MakeBytes(dstSize), MakeBytes(srcSize)>>,
        r |-> [NewReader(dstSize, srcSize) EXCEPT !.dst = Len(heap) + 1,
                                                  !.src = Len(heap) + 2]]

\* NewReader on a heap: each make([]byte, n) is a new array of the heap.
newReaderIn(heap, dstSize, srcSize) ==
  [heap |-> heap \o <<MakeBytes(dstSize), MakeBytes(srcSize)>>,
   r |-> [NewReader(dstSize, srcSize) EXCEPT !.dst = Len(heap) + 1,
                                             !.src = Len(heap) + 2]]

\* Reader i of the pair rd with its staging buffers read from the heap.
pairLoad(rd, i) ==
  [rd.inst[i] EXCEPT !.dst = rd.heap[rd.inst[i].dst],
                     !.src = rd.heap[rd.inst[i].src]]

\* The pair after Reader i has become r: its fields and the bytes it wrote
\* to its staging buffers.
pairStore(rd, i, r) ==
  [inst |-> [rd.inst EXCEPT ![i] = [r EXCEPT !.dst = rd.inst[i].dst,
                                             !.src = rd.inst[i].src]],
   heap |-> [j \in 1..Len(rd.heap) |->
               IF j = rd.inst[i].dst THEN r.dst
               ELSE IF j = rd.inst[i].src THEN r.src
               ELSE rd.heap[j]]]

\* Line 180: Read is called with a buffer of plen bytes.
readCalled(plen, st) ==
  [r |-> st.r, s |-> [st.s EXCEPT !.p = plen], ph |-> "rdLoop"]

\* The read of more source bytes of one turn, lines 229-235, from a source
\* that fills the room there is.
readFilled(st, k) ==
  LET o == readFill(st.r, st.s, k,
                    IF k = Len(st.s.rest) THEN "EOF" ELSE "nil")
  IN [r |-> o.r, s |-> o.s, ph |-> "rdLoop"]

\* The transform of one turn, lines 199-227.
readTransformed(o) ==
  [r |-> o.r, s |-> o.s, ph |-> IF o.case = "refill" THEN "rdFill"
                                ELSE "rdLoop"]

\* One turn of the loop of Read, lines 183-236, of a Reader with the
\* transformer t that is in the state st = (r, s, ph).
readTurn(t, st) ==
  IF st.ph = "rdFill" \/ readBranch(st.r) = "fill"
  THEN readFilled(st, Min(fillRoom(st.r), Len(st.s.rest)))
  ELSE IF readBranch(st.r) = "copy"
  THEN readCopyOut(st.r, st.s) @@ [ph |-> "rdIdle"]
  ELSE IF readBranch(st.r) = "return"
  THEN readReturnErr(st.r, st.s) @@ [ph |-> "rdIdle"]
  ELSE readTransformed(readTransform(t, st.r, st.s))

\* One step of a Reader and its caller.
readStep(t, plen, st) ==
  IF st.ph = "rdIdle" THEN readCalled(plen, st) ELSE readTurn(t, st)

\* The state of Reader i of the pair.
pairState(i) ==
  [r |-> pairLoad(reader, i), s |-> source[i], ph |-> phase[i]]

\* The caller of Reader i has not been given an error yet.
pairRunning(i) ==
  /\ sessPos[i] < MaxPairSteps
  /\ phase[i] = "rdIdle" => source[i].ret.err = "nil"

\* Reader i takes the step st.
pairTaken(i, st) ==
  /\ reader' = pairStore(reader, i, st.r)
  /\ source' = [source EXCEPT ![i] = st.s]
  /\ phase' = [phase EXCEPT ![i] = st.ph]
  /\ sessPos' = [sessPos EXCEPT ![i] = @ + 1]
  /\ UNCHANGED <<callT, callDst, callSrc, callEOF, callRes, sessIn, sessFed,
                 sessOut>>
  /\ UNCHANGED otherVars

\* The caller of Reader i calls Read.
PairReadCall(i) ==
  /\ phase[i] = "rdIdle"
  /\ pairRunning(i)
  /\ pairTaken(i, readCalled(callRes[i].plen, pairState(i)))

\* Reader i takes one turn of the loop of its Read.
PairReadTurn(i) ==
  /\ phase[i] # "rdIdle"
  /\ pairRunning(i)
  /\ pairTaken(i, readTurn(callT[i], pairState(i)))

\* The two Readers after construction, the second made after the first.
pairMade(a, c) ==
  [inst |-> <<a.r, newReaderIn(a.heap, c.dstSize, c.srcSize).r>>,
   heap |-> newReaderIn(a.heap, c.dstSize, c.srcSize).heap]

PairConfigs == [dstSize : PairStage, srcSize : PairStage, plen : {1}]

InitPair ==
  /\ phase = <<"rdIdle", "rdIdle">>
  /\ callT \in ReaderTs \X ReaderTs
  /\ callDst = 0
  /\ callSrc = <<>>
  /\ callEOF = FALSE
  /\ callRes \in PairConfigs \X PairConfigs
  /\ sessIn \in PairInputs \X PairInputs
  /\ sessFed = 0
  /\ sessPos = <<0, 0>>
  /\ sessOut = <<>>
  /\ reader = pairMade(newReaderIn(<<>>, callRes[1].dstSize,
                                   callRes[1].srcSize), callRes[2])
  /\ source = <<NewSource(sessIn[1]), NewSource(sessIn[2])>>
  /\ iter = NoIter
  /\ idna = NoLabel

NextPair ==
  \/ PairReadCall(1)
  \/ PairReadCall(2)
  \/ PairReadTurn(1)
  \/ PairReadTurn(2)

SpecPair == InitPair /\ [][NextPair]_vars

\* ------------------------------------------------------------ colltab.Iter
\* The input of an Iter is cut by the Weighter into blocks: AppendNext
\* appends the collation elements of the next block and returns its size in
\* bytes.  A block is the sequence of the CCC values of its elements and, as
\* doNorm assumes, it starts with CCC = 0 or starts and ends with the same
\* CCC.  An element is its CCC and id, its place in the order in which the
\* elements were appended.
maxCombiningCharacters == 30

IterBlocks ==
  {<<0>>, <<1>>, <<2>>, <<3>>, <<0, 2>>, <<0, 0, 3>>, <<2, 2>>,
   <<0, 1, 0, 2>>}

MaxBlocks == 4

IterInputs == SeqsUpTo(IterBlocks, MaxBlocks)

\* A starter, a run of n marks of CCC 3 and the blocks of tail.
LongIterInput(n, tail) == <<<<0>>>> \o [j \in 1..n |-> <<3>>] \o tail

LongIterInputs ==
  {LongIterInput(n, <<b, c>>) :
     n \in (maxCombiningCharacters - 1)..(maxCombiningCharacters + 1),
     b \in {<<2>>, <<2, 2>>}, c \in {<<1>>, <<3>>, <<0>>}}

\* What the last step of Next had doNorm do: nothing, a move of the block at
\* k to p, or the cut after maxCombiningCharacters elements.
NoNorm == [did |-> "none", p |-> 0, k |-> 0]

\* SetInput: the Iter over the blocks in; rest is i.bytes, made the number
\* of elements appended so far, ret what the last step of Next did, norm
\* what doNorm did in it.
SetInput(in) ==
  [Elems |-> <<>>, N |-> 0, prevCCC |-> 0, pStarter |-> 0, rest |-> in,
   made |-> 0, ret |-> "none", norm |-> NoNorm]

\* Iter.done
iterDone(it) == Len(it.rest) = 0

\* appendNext and tail: the elements of the next block are appended.
appendNext(it) ==
  [it EXCEPT !.Elems = @ \o [j \in 1..Len(it.rest[1]) |->
                               [ccc |-> it.rest[1][j], id |-> it.made + j]],
             !.made = @ + Len(it.rest[1]),
             !.rest = Tail(@)]

\* CCC of i.Elems[j]
elemCCC(it, j) == it.Elems[j + 1].ccc

\* Line 187 with N covering the whole block.
coverStartersAll(it, p0, last) == last + 1

\* Line 187: for p0++; p0 < last && i.Elems[p0].CCC() == 0; p0++ {}
\* entered with p0 already incremented.
RECURSIVE coverStarters(_, _, _)
coverStarters(it, p0, last) ==
  IF p0 < last /\ elemCCC(it, p0) = 0 THEN coverStarters(it, p0 + 1, last)
  ELSE p0

\* Line 236: for p--; p > i.pStarter && ccc < i.Elems[p-1].CCC(); p-- {}
\* entered with p already decremented.
RECURSIVE doNormPos(_, _, _)
doNormPos(it, p, ccc) ==
  IF p > it.pStarter /\ ccc < elemCCC(it, p - 1) THEN doNormPos(it, p - 1, ccc)
  ELSE p

\* Lines 237-239: the block i.Elems[k:] is moved in front of i.Elems[p:k];
\* the copy within one slice moves the bytes as memmove does.
doNormMoved(it, p, k) ==
  [it EXCEPT !.Elems = Slice(@, 0, p) \o Slice(@, k, Len(@)) \o Slice(@, p, k),
             !.norm = [did |-> "moved", p |-> p, k |-> k]]

\* Iter.doNorm
doNorm(it, p, ccc) ==
  IF p - it.pStarter > maxCombiningCharacters
  THEN [it EXCEPT !.prevCCC = elemCCC(it, Len(it.Elems) - 1),
                  !.pStarter = Len(it.Elems) - 1,
                  !.norm = [did |-> "cut", p |-> p, k |-> p]]
  ELSE doNormMoved(it, doNormPos(it, p - 1, ccc), p)

\* Lines 178-197 after appendNext: a is the Iter with the new block at p0.
nextClassified(a, p0, last, ccc) ==
  IF ccc = 0
  THEN [a EXCEPT !.N = Len(a.Elems), !.pStarter = last, !.prevCCC = 0,
                 !.ret = "true"]
  ELSE IF p0 < last /\ elemCCC(a, p0) = 0
  THEN [a EXCEPT !.N = coverStarters(a, p0 + 1, last),
                 !.pStarter = coverStarters(a, p0 + 1, last) - 1,
                 !.prevCCC = ccc, !.ret = "true"]
  ELSE IF ccc < a.prevCCC
  THEN [doNorm(a, p0, ccc) EXCEPT !.ret = "loop"]
  ELSE [a EXCEPT !.prevCCC = ccc, !.ret = "loop"]

\* Lines 174-197: one turn of the loop of Next.
nextTurn(it) ==
  nextClassified(appendNext([it EXCEPT !.norm = NoNorm]), Len(it.Elems),
                 Len(it.Elems) + Len(it.rest[1]) - 1,
                 it.rest[1][Len(it.rest[1])])

\* Lines 199-203: the input is used up.
nextEnd(it) ==
  IF Len(it.Elems) # it.N
  THEN [it EXCEPT !.N = Len(it.Elems), !.ret = "true", !.norm = NoNorm]
  ELSE [it EXCEPT !.ret = "false", !.norm = NoNorm]

\* Next appends the next block and returns or goes on with its loop.
IterTurn ==
  /\ phase = "iter"
  /\ ~iterDone(iter)
  /\ iter' = nextTurn(iter)
  /\ UNCHANGED <<phase, callVars, sessVars, readerVars, idna>>

\* Next finds its input used up and returns.
IterEnd ==
  /\ phase = "iter"
  /\ iterDone(iter)
  /\ iter.ret # "false"
  /\ iter' = nextEnd(iter)
  /\ UNCHANGED <<phase, callVars, sessVars, readerVars, idna>>

InitIter ==
  /\ phase = "iter"
  /\ callT = "Iter"
  /\ callDst = 0
  /\ callSrc = <<>>
  /\ callEOF = FALSE
  /\ callRes = Result(0, 0, "nil", <<>>)
  /\ sessIn = <<>>
  /\ sessFed = 0
  /\ sessPos = 0
  /\ sessOut = <<>>
  /\ reader = NoReader
  /\ source = NoSource
  /\ iter \in {SetInput(in) : in \in IterInputs \cup LongIterInputs}
  /\ idna = NoLabel

NextIter ==
  \/ IterTurn
  \/ IterEnd

SpecIter == InitIter /\ [][NextIter]_vars

\* ------------------------------------------------------------ idna labelIter
\* The loop of Profile.process over the labels of a domain name:
\*   for ; !labels.done(); labels.next() { label := labels.label(); ... }
\* where the body may replace the label with labels.set.  A labelIter with
\* slice == nil has isSlice = FALSE.  visited is the labels that label() has
\* returned and sets the number of calls of set.
Dot == 46

LabelBytes == {97, Dot}

MaxName == 5

LabelNames == SeqsUpTo(LabelBytes, MaxName)

\* The labels set may put in place of a label.
LabelReplacements == {<<120>>}

\* strings.IndexByte(s[from:], c), -1 when c is not there.
RECURSIVE IndexByteFrom(_, _, _, _)
IndexByteFrom(s, from, c, p) ==
  IF from + p >= Len(s) THEN 0 - 1
  ELSE IF s[from + p + 1] = c THEN p
  ELSE IndexByteFrom(s, from, c, p + 1)

\* strings.Split(s, "."), from the byte at from on.
RECURSIVE SplitFrom(_, _)
SplitFrom(s, from) ==
  IF IndexByteFrom(s, from, Dot, 0) < 0 THEN <<Slice(s, from, Len(s))>>
  ELSE <<Slice(s, from, from + IndexByteFrom(s, from, Dot, 0))>>
         \o SplitFrom(s, from + IndexByteFrom(s, from, Dot, 0) + 1)

Split(s) == SplitFrom(s, 0)

\* labelIter{orig: s}
NewLabelIter(s) ==
  [orig |-> s, isSlice |-> FALSE, slice |-> <<>>, curStart |-> 0,
   curEnd |-> 0, i |-> 0, visited |-> <<>>, sets |-> 0]

\* labelIter.done
labelDone(l) == l.curStart >= Len(l.orig)

\* curEnd after labelIter.label on the string orig.
labelEnd(l, p) == IF p = 0 - 1 THEN Len(l.orig) ELSE l.curStart + p

\* labelIter.label: the iterator after the call, with the label it returned
\* added to visited.
labelRead(l) ==
  IF l.isSlice THEN [l EXCEPT !.visited = Append(@, l.slice[l.i + 1])]
  ELSE [l EXCEPT
          !.curEnd = labelEnd(l, IndexByteFrom(l.orig, l.curStart, Dot, 0)),
          !.visited =
            Append(@, Slice(l.orig, l.curStart,
                            labelEnd(l, IndexByteFrom(l.orig, l.curStart,
                                                      Dot, 0))))]

\* The last line of the else branch of next, after curStart = curEnd + 1.
nextStart(l, curStart) ==
  IF curStart = Len(l.orig) - 1 /\ l.orig[curStart + 1] = Dot
  THEN Len(l.orig) ELSE curStart

\* The slice branch of next, after i++.
nextInSlice(l, i) ==
  IF \/ i >= Len(l.slice)
     \/ i = Len(l.slice) - 1 /\ l.slice[i + 1] = <<>>
  THEN Len(l.orig) ELSE l.curStart

\* labelIter.next
labelNext(l) ==
  IF l.isSlice
  THEN [l EXCEPT !.i = @ + 1, !.curStart = nextInSlice(l, l.i + 1)]
  ELSE [l EXCEPT !.i = @ + 1, !.curStart = nextStart(l, l.curEnd + 1)]

\* labelIter.set
labelSet(l, s) ==
  [l EXCEPT !.isSlice = TRUE,
            !.slice = [(IF l.isSlice THEN l.slice ELSE Split(l.orig))
                         EXCEPT ![l.i + 1] = s],
            !.sets = @ + 1]

\* labelIter.result
labelResult(l) == IF l.isSlice THEN l.slice ELSE <<l.orig>>

\* The body of the loop reads the label and leaves it as it is.
LabelKeep ==
  /\ phase = "lbBody"
  /\ idna' = labelRead(idna)
  /\ phase' = "lbNext"
  /\ UNCHANGED <<callVars, sessVars, readerVars, iter>>

\* The body of the loop reads the label and replaces it.
LabelSet ==
  /\ phase = "lbBody"
  /\ \E s \in LabelReplacements : idna' = labelSet(labelRead(idna), s)
  /\ phase' = "lbNext"
  /\ UNCHANGED <<callVars, sessVars, readerVars, iter>>

\* labels.next() and the test !labels.done() of the loop.
LabelNext ==
  /\ phase = "lbNext"
  /\ idna' = labelNext(idna)
  /\ phase' = IF labelDone(labelNext(idna)) THEN "lbDone" ELSE "lbBody"
  /\ UNCHANGED <<callVars, sessVars, readerVars, iter>>

InitLabels ==
  /\ callT = "labelIter"
  /\ callDst = 0
  /\ callSrc = <<>>
  /\ callEOF = FALSE
  /\ callRes = Result(0, 0, "nil", <<>>)
  /\ sessIn = <<>>
  /\ sessFed = 0
  /\ sessPos = 0
  /\ sessOut = <<>>
  /\ reader = NoReader
  /\ source = NoSource
  /\ iter = NoIter
  /\ idna \in {NewLabelIter(s) : s \in LabelNames}
  /\ phase = IF labelDone(idna) THEN "lbDone" ELSE "lbBody"

NextLabels ==
  \/ LabelKeep
  \/ LabelSet
  \/ LabelNext

SpecLabels == InitLabels /\ [][NextLabels]_vars

\* ------------------------------------------------------- idna validateLabel
\* The trie and the info of a rune are tables outside these sources: the
\* lookup returns the properties of the rune at the front of a string and
\* its size in bytes, and size 0 for a unit that is incomplete or not
\* valid.  The runes of the labels are a and - (no join type), U+0628 BEH
\* (dual joining), U+0627 ALEF (right joining), U+A872 (left joining),
\* U+0300 (transparent, a modifier), U+094D (a virama), the zero width
\* joiner and non-joiner, and the lead byte E2 with nothing after it.
zwnj == <<226, 128, 140>>

zwj == <<226, 128, 141>>

LabelTokens ==
  {<<97>>, <<45>>, <<216, 168>>, <<216, 167>>, <<234, 161, 178>>,
   <<204, 128>>, <<224, 165, 141>>, zwj, zwnj, <<226>>}

MaxLabelRunes == 3

LabelInputs == {Flatten(ts) : ts \in SeqsUpTo(LabelTokens, MaxLabelRunes)}

\* info of a rune: its join type and whether it is a virama or a modifier.
runeInfo(sz, jt, virama, modifier) ==
  [sz |-> sz, jt |-> jt, virama |-> virama, modifier |-> modifier]

\* s[i:] starts with the bytes t.
HasPrefixAt(s, i, t) ==
  /\ i + Len(t) <= Len(s)
  /\ Slice(s, i, i + Len(t)) = t

\* trie.lookupString(s[i:]) and info(v)
lookupString(s, i) ==
  IF i >= Len(s) THEN runeInfo(0, "none", FALSE, FALSE)
  ELSE IF s[i + 1] < RuneSelf THEN runeInfo(1, "none", FALSE, FALSE)
  ELSE IF HasPrefixAt(s, i, <<216, 168>>) THEN runeInfo(2, "joiningD", FALSE, FALSE)
  ELSE IF HasPrefixAt(s, i, <<216, 167>>) THEN runeInfo(2, "joiningR", FALSE, FALSE)
  ELSE IF HasPrefixAt(s, i, <<234, 161, 178>>)
    THEN runeInfo(3, "joiningL", FALSE, FALSE)
  ELSE IF HasPrefixAt(s, i, <<204, 128>>) THEN runeInfo(2, "joiningT", FALSE, TRUE)
  ELSE IF HasPrefixAt(s, i, <<224, 165, 141>>)
    THEN runeInfo(3, "joiningT", TRUE, TRUE)
  ELSE IF HasPrefixAt(s, i, zwj) \/ HasPrefixAt(s, i, zwnj)
    THEN runeInfo(3, "none", FALSE, FALSE)
  ELSE runeInfo(0, "none", FALSE, FALSE)

\* strings.Index(s, t) != -1
RECURSIVE ContainsFrom(_, _, _)
ContainsFrom(s, t, i) ==
  IF i + Len(t) > Len(s) THEN FALSE
  ELSE IF HasPrefixAt(s, i, t) THEN TRUE
  ELSE ContainsFrom(s, t, i + 1)

Contains(s, t) == ContainsFrom(s, t, 0)

\* A row of stateFAIL that has no entry for joinVirama.
failRowNoVirama(st, jt) ==
  IF jt = "joinVirama" THEN "stateStart" ELSE "stateFAIL"

\* Lines 755-764: the row of stateFAIL.
failRow(st, jt) == "stateFAIL"

\* joinStates[st][jt]; an entry that is not written is the zero value,
\* stateStart.
joinStates(st, jt) ==
  IF st = "stateStart" THEN
    (IF jt \in {"joiningL", "joiningD"} THEN "stateBefore"
     ELSE IF jt \in {"joinZWNJ", "joinZWJ"} THEN "stateFAIL"
     ELSE IF jt = "joinVirama" THEN "stateVirama"
     ELSE "stateStart")
  ELSE IF st = "stateVirama" THEN
    (IF jt \in {"joiningL", "joiningD"} THEN "stateBefore" ELSE "stateStart")
  ELSE IF st = "stateBefore" THEN
    (IF jt \in {"joiningL", "joiningD", "joiningT"} THEN "stateBefore"
     ELSE IF jt = "joinZWNJ" THEN "stateAfter"
     ELSE IF jt = "joinZWJ" THEN "stateFAIL"
     ELSE IF jt = "joinVirama" THEN "stateBeforeVirama"
     ELSE "stateStart")
  ELSE IF st = "stateBeforeVirama" THEN
    (IF jt \in {"joiningL", "joiningD", "joiningT"} THEN "stateBefore"
     ELSE "stateStart")
  ELSE IF st = "stateAfter" THEN
    (IF jt = "joiningL" THEN "stateFAIL"
     ELSE IF jt = "joiningD" THEN "stateBefore"
     ELSE IF jt = "joiningT" THEN "stateAfter"
     ELSE IF jt = "joiningR" THEN "stateStart"
     ELSE IF jt \in {"joinZWNJ", "joinZWJ"} THEN "stateFAIL"
     ELSE IF jt = "joinVirama" THEN "stateAfter"
     ELSE "stateStart")
  ELSE failRow(st, jt)

\* The options of a Profile that validateLabel reads; validate stands for
\* unicode16 && p.validateLabels().
LabelProfiles ==
  [verifyDNSLength : BOOLEAN, checkHyphens : BOOLEAN, validate : BOOLEAN,
   checkJoiners : BOOLEAN]

\* validateLabel before it has run: pc is "start", "loop" at the top of the
\* joiner loop and "done" after a return; x is the info of the rune at i,
\* turns the number of turns of the loop, err the code of the error.
NewLabelCheck(p, s) ==
  [orig |-> s, p |-> p, pc |-> "start", i |-> 0,
   x |-> runeInfo(0, "none", FALSE, FALSE), st |-> "stateStart",
   err |-> "nil", turns |-> 0]

\* Lines 796-810: the first rune from i on that the loop over the runes
\* rejects; all runes of the labels are valid and the ASCII ones are
\* allowed by STD3, so the only error is P1 for a lookup of size 0.
RECURSIVE validateRunes(_, _)
validateRunes(s, i) ==
  IF ~(i < Len(s)) THEN "nil"
  ELSE IF lookupString(s, i).sz = 0 THEN "P1"
  ELSE validateRunes(s, i + lookupString(s, i).sz)

\* Lines 779-793: the error of the checks of the empty label and of the
\* hyphens.
hyphenErr(p, s) ==
  IF s = <<>> THEN (IF p.verifyDNSLength THEN "A4" ELSE "nil")
  ELSE IF p.checkHyphens /\ Len(s) > 4 /\ s[3] = 45 /\ s[4] = 45 THEN "V2"
  ELSE IF p.checkHyphens /\ (s[1] = 45 \/ s[Len(s)] = 45) THEN "V3"
  ELSE "nil"

\* Lines 778-827: validateLabel up to the joiner loop: the error it returns
\* or "loop" when it enters the loop.
labelEntry(p, s) ==
  IF s = <<>> \/ hyphenErr(p, s) # "nil" THEN hyphenErr(p, s)
  ELSE IF p.validate /\ validateRunes(s, 0) # "nil" THEN validateRunes(s, 0)
  ELSE IF ~p.checkJoiners THEN "nil"
  ELSE IF lookupString(s, 0).modifier THEN "V5"
  ELSE IF ~Contains(s, zwj) /\ ~Contains(s, zwnj) THEN "nil"
  ELSE "loop"

\* Lines 829-834: the join type of the rune at i.
joinTypeAt(l) ==
  IF Slice(l.orig, l.i, l.i + l.x.sz) = zwj THEN "joinZWJ"
  ELSE IF Slice(l.orig, l.i, l.i + l.x.sz) = zwnj THEN "joinZWNJ"
  ELSE l.x.jt

\* Lines 835-838: the state after the rune at i.
joinStep(l) ==
  IF l.x.virama
  THEN joinStates(joinStates(l.st, joinTypeAt(l)), "joinVirama")
  ELSE joinStates(l.st, joinTypeAt(l))

\* Lines 845-849: the error after the loop.
joinErr(st) == IF st = "stateFAIL" \/ st = "stateAfter" THEN "C" ELSE "nil"

\* Lines 829-849: one turn of the joiner loop and, when it leaves the loop,
\* the return.
joinTurn(l) ==
  IF l.i + l.x.sz = Len(l.orig)
  THEN [l EXCEPT !.st = joinStep(l), !.i = l.i + l.x.sz, !.pc = "done",
                 !.err = joinErr(joinStep(l)), !.turns = @ + 1]
  ELSE [l EXCEPT !.st = joinStep(l), !.i = l.i + l.x.sz,
                 !.x = lookupString(l.orig, l.i + l.x.sz), !.turns = @ + 1]

MaxTurns == 6

\* validateLabel runs up to a return or to the joiner loop.
LabelEnter ==
  /\ phase = "validateLabel"
  /\ idna.pc = "start"
  /\ idna' = IF labelEntry(idna.p, idna.orig) = "loop"
             THEN [idna EXCEPT !.pc = "loop", !.x = lookupString(idna.orig, 0)]
             ELSE [idna EXCEPT !.pc = "done",
                               !.err = labelEntry(idna.p, idna.orig)]
  /\ UNCHANGED <<phase, callVars, sessVars, readerVars, iter>>

\* One turn of the joiner loop.
JoinTurn ==
  /\ phase = "validateLabel"
  /\ idna.pc = "loop"
  /\ idna.turns < MaxTurns
  /\ idna' = joinTurn(idna)
  /\ UNCHANGED <<phase, callVars, sessVars, readerVars, iter>>

InitLabel ==
  /\ phase = "validateLabel"
  /\ callT = "validateLabel"
  /\ callDst = 0
  /\ callSrc = <<>>
  /\ callEOF = FALSE
  /\ callRes = Result(0, 0, "nil", <<>>)
  /\ sessIn = <<>>
  /\ sessFed = 0
  /\ sessPos = 0
  /\ sessOut = <<>>
  /\ reader = NoReader
  /\ source = NoSource
  /\ iter = NoIter
  /\ idna \in {NewLabelCheck(p, s) : p \in LabelProfiles, s \in LabelInputs}

NextLabel ==
  \/ LabelEnter
  \/ JoinTurn

SpecLabel == InitLabel /\ [][NextLabel]_vars

\* ----------------------------------------------------------------- claims
IsPrefix(a, b) == Len(a) <= Len(b) /\ SubSeq(b, 1, Len(a)) = a

\* dst[:nDst] and src[:nSrc] of the recorded call.
Written == SubSeq(callRes.dst, 1, callRes.nDst)

Consumed == SubSeq(callSrc, 1, callRes.nSrc)

\* C1: a Transform call that returns a nil error has consumed all of src
\* (nSrc = len(src)), for every modelled transformer, dst, src and atEOF.
C1_NilConsumesAll ==
  (phase = "done" /\ callRes.err = "nil") => callRes.nSrc = Len(callSrc)

\* An NFC call at end of input returned nil after consuming a source of at
\* least three bytes.
C1_Witness ==
  /\ phase = "done"
  /\ callT = "NFC"
  /\ callEOF
  /\ callRes.err = "nil"
  /\ Len(callSrc) >= 3
  /\ callRes.nSrc = Len(callSrc)

\* The fold of a byte string: what foldTransform writes at end of input
\* into a destination with room to spare.
FoldOf(s) ==
  LET r == foldTransform(NewBuf(Len(s) + 1), s, TRUE)
  IN SubSeq(r.dst, 1, r.nDst)

\* C2: for the width fold, dst[:nDst] is exactly the fold of src[:nSrc]:
\* no source byte is counted in nSrc unless its output was written.
C2_FoldExact ==
  (phase = "done" /\ callT = "fold") => Written = FoldOf(Consumed)

\* C3: 0 <= nDst <= len(dst), 0 <= nSrc <= len(src), and no cell of dst at
\* or beyond index nDst is written.
C3_WritesOnlyPrefix ==
  phase = "done" =>
    /\ 0 <= callRes.nDst /\ callRes.nDst <= callDst
    /\ 0 <= callRes.nSrc /\ callRes.nSrc <= Len(callSrc)
    /\ Len(callRes.dst) = callDst
    /\ \A i \in (callRes.nDst + 1)..callDst : callRes.dst[i] = Untouched

\* C4: a call made with atEOF never returns ErrShortSrc.
C4_NoShortSrcAtEOF ==
  (phase = "done" /\ callEOF) => callRes.err # "ErrShortSrc"

\* An EUC-JP call at end of input whose source ends in a lone lead byte
\* reported the decoder's own error.
C4_Witness ==
  /\ phase = "done"
  /\ callT = "eucJP"
  /\ callEOF
  /\ callRes.err = "errInvalidEUCJP"
  /\ callRes.nSrc + 1 = Len(callSrc)
  /\ callSrc[Len(callSrc)] = 164

\* The rune a decoder was about to write when it stopped at nSrc.
NextDecoded ==
  IF callT = "eucJP" THEN eucJPSwitch(callSrc, callRes.nSrc)
  ELSE eucKRSwitch(callSrc, callRes.nSrc)

\* C5: a decoder returns ErrShortDst only when the UTF-8 encoding of the
\* next decoded rune does not fit in the remaining destination.
C5_ShortDstOnlyIfNoFit ==
  (phase = "done" /\ callT \in {"eucJP", "eucKR"}
     /\ callRes.err = "ErrShortDst") =>
    callRes.nDst + RuneLen(NextDecoded.r) > callDst

\* C6: in a session that ran to completion the concatenated dst[:nDst] of
\* the calls equals Append(nil, x), whatever the chunks and the dst capacity.
C6_ChunkInvariance ==
  phase = "normDone" => sessOut = FormAppend(callT, sessIn)

IsNormCall == phase = "done" /\ callT \in Forms

\* C7: what a normalization call at end of input leaves in dst[:nDst] is a
\* prefix of F(src), and NFC of a + U+0300 into 1 or 2 bytes gives
\* (0, 0, ErrShortDst).
C7_WholeSegments ==
  (IsNormCall /\ callEOF) =>
    /\ IsPrefix(Written, FormAppend(callT, callSrc))
    /\ (callT = "NFC" /\ callSrc = <<97, 204, 128>> /\ callDst \in {1, 2}) =>
         (callRes.nDst = 0 /\ callRes.nSrc = 0
            /\ callRes.err = "ErrShortDst")

\* What may follow a source that stopped short: the rest of a rune, a
\* starter, a combining mark.
NormExt == {<<128>>, <<160>>, <<97>>, <<204, 128>>, <<204, 160>>}

\* dst[:nDst] of a call at end of input into a destination with room.
WrittenAtEOF(f, src) ==
  LET r == FormTransform(f, NewBuf(UTFMax * (Len(src) + 1)), src, TRUE)
  IN SubSeq(r.dst, 1, r.nDst)

C10_ShortSrcNeverReturned ==
  source.ret.err = "ErrShortSrc" =>
    (source.srcErr # "nil" \/ source.rest = <<>>)

\* C10, amended: the pending bytes src[src0:src1] are always the bytes the
\* source has delivered and Transform has not consumed, in order; more bytes
\* are read only into free room after them; and while the source has
\* returned no error Read returns ErrShortSrc only when the pending bytes
\* fill the whole source staging buffer.
C10_ShortSrcRefillsIfRoom ==
  /\ Slice(reader.src, reader.src0, reader.src1)
       = From(source.taken, source.eaten)
  /\ phase = "rdFill" =>
       /\ source.last.err = "ErrShortSrc"
       /\ reader.src1 - reader.src0 < Len(reader.src)
       /\ ~reader.transformComplete
  /\ (source.ret.err = "ErrShortSrc" /\ source.srcErr = "nil") =>
       reader.src1 - reader.src0 = Len(reader.src)

\* After a Transform that consumed some bytes and returned ErrShortSrc the
\* pending bytes were moved to the front of src and more were read after
\* them.
C10_Witness ==
  /\ phase = "rdLoop"
  /\ source.last.err = "ErrShortSrc"
  /\ source.last.nSrc > 0
  /\ ~reader.transformComplete
  /\ reader.src0 = 0
  /\ reader.src1 >= 2
  /\ reader.src[1] = 49

\* C11: when the byte source has returned an error other than io.EOF, an
\* error returned by Read is that error of the source.
C11_SourceErrorWins ==
  (source.srcErr = "errIO" /\ source.ret.err # "nil") =>
    source.ret.err = "errIO"

\* The bytes of the destination staging buffer that Read has not copied out.
Staged == Slice(reader.dst, reader.dst0, reader.dst1)

\* C12: the bytes Read has returned, followed by the bytes still staged, are
\* the bytes the Transform calls produced, in the order they produced them,
\* and once Read has returned an error nothing produced is left unreturned.
C12_StagedBeforeError ==
  /\ source.got \o Staged = source.made
  /\ source.ret.err # "nil" =>
       (source.got = source.made /\ reader.dst0 = reader.dst1)

\* Three bytes were staged by one Transform call at the end of the stream:
\* a Read has returned two of them, the next Read the last one together
\* with io.EOF.
C12_Witness ==
  /\ phase = "rdIdle"
  /\ callT = "lowerCaseASCII"
  /\ source.ret = [n |-> 1, err |-> "EOF"]
  /\ reader.dst1 = 3
  /\ source.got = <<97, 97, 97>>

\* Read has returned an error.
Terminal == source.ret.err # "nil"

\* C13: after Read has returned an error no step calls Transform or reads
\* from the byte source, the Reader and the record of the source stay as
\* they are, and every Read that returns does so with 0 bytes and that
\* error.
C13_TerminalIsSticky ==
  [][Terminal =>
       /\ ~ReadTransform
       /\ ~ReadFill
       /\ reader' = reader
       /\ source'.rest = source.rest
       /\ source'.taken = source.taken
       /\ source'.made = source.made
       /\ source'.got = source.got
       /\ source'.ret.err = source.ret.err
       /\ phase' = "rdIdle" => source'.ret.n = 0]_vars

\* A Read after the one that returned the last staged bytes with io.EOF has
\* returned 0 bytes and io.EOF.
C13_Witness ==
  /\ phase = "rdIdle"
  /\ source.ret = [n |-> 0, err |-> "EOF"]
  /\ reader.dst1 > 0
  /\ reader.dst0 = reader.dst1
  /\ source.got # <<>>

\* dst[:nDst] of one Transform call on the whole stream x at end of input,
\* into a destination with room.
WholeOutput(t, x) ==
  LET res == readerT(t, NewBuf(MaxStage * Len(x)), x, TRUE)
  IN SubSeq(res.dst, 1, res.nDst)

IsComposeCall ==
  /\ IsNormCall
  /\ callT = "NFC"
  /\ callSrc = <<97, 204, 128>>
  /\ callDst = 4
  /\ callEOF

\* C15 as stated: NFC of a U+0300 into 4 bytes at end of input writes
\* U+00E0 and returns nDst = 2, nSrc = 2 and a nil error.
C15_ComposeFitsAsStated ==
  IsComposeCall =>
    /\ Written = <<195, 160>>
    /\ callRes.nDst = 2
    /\ callRes.nSrc = 2
    /\ callRes.err = "nil"

\* C15, amended: NFC of a U+0300 into 4 bytes at end of input writes U+00E0
\* and returns nDst = 2, nSrc = 3, the three bytes of the source, and a nil
\* error.
C15_ComposeFits ==
  IsComposeCall =>
    /\ Written = <<195, 160>>
    /\ callRes.nDst = 2
    /\ callRes.nSrc = 3
    /\ callRes.err = "nil"

\* The call has been made and has written the two bytes of U+00E0.
C15_Witness == IsComposeCall /\ callRes.nDst = 2

\* C16: a call of a decoder returns no error for source bytes that are not
\* valid in its encoding.
C16_InvalidBytesReplaced ==
  (phase = "done" /\ callT \in {"eucJP", "eucKR"}) =>
    callRes.err \notin {"errInvalidEUCJP", "errInvalidEUCKR"}

\* The code points of well-formed bytes, each one that has a decomposition
\* replaced by it.
RECURSIVE DecomposedRunes(_)
DecomposedRunes(s) ==
  IF Len(s) = 0 THEN <<>>
  ELSE LET d == DecodeRune(s)
           dec == runeProps(d.r).decomp
       IN (IF Len(dec) > 0 THEN dec ELSE <<d.r>>)
            \o DecomposedRunes(From(s, d.size))

Count(seq, r) == Cardinality({i \in DOMAIN seq : seq[i] = r})

\* a and b hold the same code points, each as often.
SameRunes(a, b) ==
  /\ Len(a) = Len(b)
  /\ \A i \in DOMAIN a : Count(a, a[i]) = Count(b, a[i])

First(seq, n) == SubSeq(seq, 1, Min(n, Len(seq)))

\* The call on a long run of marks.
IsLongCall == IsNormCall /\ callSrc \in LongInputs /\ callDst = LongDstCap

\* C17: a call at end of input on a starter with a long run of marks returns
\* nil with the whole source consumed; its output holds the code points of
\* the source, each as often; and the first maxCombiningChars + 1 code
\* points of the output are the starter and the first maxCombiningChars
\* marks of the source, so that no later mark has moved in front of them.
C17_BoundedMarkRun ==
  IsLongCall =>
    /\ callRes.err = "nil"
    /\ callRes.nSrc = Len(callSrc)
    /\ SameRunes(DecomposedRunes(callSrc), DecomposedRunes(Written))
    /\ SameRunes(First(DecomposedRunes(callSrc), maxCombiningChars + 1),
                 First(DecomposedRunes(Written), maxCombiningChars + 1))

\* NFD of a, 30 times U+0300 and U+0320: the mark of the lower class is the
\* 31st and stays behind the 30 marks of class 230.
C17_Witness ==
  /\ IsLongCall
  /\ callT = "NFD"
  /\ callSrc = LongRun(maxCombiningChars, 1, 0)
  /\ Written = callSrc

\* The call is at end of input, into a destination with room for every
\* flush, on a source that ends with the lead byte CC of a two-byte rune.
EndsIncomplete ==
  /\ IsNormCall
  /\ callEOF
  /\ callDst >= UTFMax * Len(callSrc)
  /\ Len(callSrc) > 0
  /\ callSrc[Len(callSrc)] = 204

\* C18: such a call returns nil with the whole source consumed, and its
\* output is the output for the source without the last byte followed by
\* that byte.
C18_TrailingBytesCopied ==
  EndsIncomplete =>
    /\ callRes.err = "nil"
    /\ callRes.nSrc = Len(callSrc)
    /\ Written = WrittenAtEOF(callT, SubSeq(callSrc, 1, Len(callSrc) - 1))
                   \o <<204>>

\* NFD of U+00E0 and the byte CC: the segment is decomposed and the byte
\* follows it.
C18_Witness ==
  /\ EndsIncomplete
  /\ callT = "NFD"
  /\ callSrc = <<195, 160, 204>>
  /\ Written = <<97, 204, 128, 204>>

BothEnforcedEqual(p, ea, eb) ==
  /\ ea.err = "nil"
  /\ eb.err = "nil"
  /\ IF p.ignorecase THEN FoldString(ea.b) = FoldString(eb.b)
     ELSE ea.b = eb.b

EnforcedEqual(p, a, b) ==
  BothEnforcedEqual(p, ProfileString(p, a), ProfileString(p, b))

\* C20: Profile.Compare(a, b) is true exactly if a and b are both enforced
\* without error to equal strings (equal after the width fold when the
\* profile ignores case), and Compare(a, b) = Compare(b, a).
C20_CompareIffEnforcedEqual ==
  phase = "compared" =>
    /\ callRes.result = EnforcedEqual(callRes.p, callSrc[1], callSrc[2])
    /\ callRes.result = callRes.swapped

\* C21: normalizing the output of a normalization again with the same form
\* changes nothing: F(F(x)) = F(x).
C21_Idempotent ==
  phase = "normalized" => callRes.twice = callRes.once

\* The normal form of a string by definition: every rune decomposed, the
\* marks after each starter ordered by combining class (stably, over the
\* whole run), and for a composing form the pairs composed.  rb holds the
\* entries since the last rune with a boundary before it, out the normal
\* form of the bytes before that rune; an ill-formed byte stands alone.
RECURSIVE RefNorm(_, _, _, _)
RefNorm(f, s, rb, out) ==
  IF Len(s) = 0 THEN out \o flushBytes(f, rb)
  ELSE LET nf == info(s, 0)
       IN IF nf.size = 0
          THEN RefNorm(f, From(s, 1), <<>>, out \o flushBytes(f, rb) \o <<s[1]>>)
          ELSE IF BoundaryBefore(nf.props)
          THEN RefNorm(f, From(s, nf.size), rbInsert(<<>>, nf).rb,
                       out \o flushBytes(f, rb))
          ELSE IF Len(nf.props.decomp) > 0
          THEN RefNorm(f, From(s, nf.size),
                       insertDecomposed(rb, nf.props.decomp, 1), out)
          ELSE RefNorm(f, From(s, nf.size),
                       insertOrdered(rb, rbEntry(nf.r, nf.bytes)), out)

RefNormalize(f, s) == RefNorm(f, s, <<>>, <<>>)

\* The prefix of the source that Form.QuickSpan returned.
Spanned == SubSeq(callSrc, 1, callRes.n)

\* C22: Form.QuickSpan(b) returns n with 0 <= n <= len(b) such that b[0:n]
\* is in the form: Form.String returns b[0:n] unchanged and, when b has no
\* run of more than maxCombiningChars marks, b[0:n] is its own normal form
\* by definition.
C22_QuickSpanIsNormal ==
  phase = "spanned" =>
    /\ 0 <= callRes.n /\ callRes.n <= Len(callSrc)
    /\ FormString(callT, Spanned) = Spanned
    /\ callSrc \in NormInputs => RefNormalize(callT, Spanned) = Spanned

\* QuickSpan stopped inside the string, at the start of the segment whose
\* marks are out of order.
C22_Witness ==
  /\ phase = "spanned"
  /\ callT = "NFD"
  /\ callSrc = <<97, 97, 205, 160, 204, 128>>
  /\ callRes.n = 1

\* The state of a Reader with the transformer t after n steps of it and its
\* caller when no other Reader runs.
RECURSIVE aloneRun(_, _, _, _)
aloneRun(t, plen, st, n) ==
  IF n = 0 THEN st ELSE aloneRun(t, plen, readStep(t, plen, st), n - 1)

AloneState(i) ==
  aloneRun(callT[i], callRes[i].plen,
           [r |-> NewReader(callRes[i].dstSize, callRes[i].srcSize),
            s |-> NewSource(sessIn[i]), ph |-> "rdIdle"], sessPos[i])

C24_PrefixFrozen ==
  [][/\ iter.N <= Len(iter.Elems)
     /\ iter'.N <= Len(iter'.Elems)
     /\ iter.N <= iter'.N
     /\ iter'.N > 0 /\ ~iterDone(iter) => iter'.Elems[iter'.N].ccc = 0
     /\ SubSeq(iter'.Elems, 1, iter.N) = SubSeq(iter.Elems, 1, iter.N)
     /\ \A j \in 1..Len(iter.Elems) :
          iter.Elems[j].ccc = 0 =>
            SubSeq(iter'.Elems, 1, j) = SubSeq(iter.Elems, 1, j)]_vars

\* After Next has returned with N = 1 for a starter followed by a mark of
\* CCC 2, doNorm has moved a mark of CCC 1 in front of that mark.
C24_Witness ==
  /\ phase = "iter"
  /\ iter.N = 1
  /\ iter.norm = [did |-> "moved", p |-> 1, k |-> 2]
  /\ Len(iter.Elems) = 3
  /\ iter.Elems[2] = [ccc |-> 1, id |-> 3]
  /\ iter.Elems[3] = [ccc |-> 2, id |-> 2]

\* The labels of a domain name without a final empty label.
LabelsToVisit(s) ==
  IF Split(s)[Len(Split(s))] = <<>> THEN SubSeq(Split(s), 1, Len(Split(s)) - 1)
  ELSE Split(s)

\* C25: when the loop over the labels has ended, the labels it has visited
\* are all the labels of the name in order but for a final empty label,
\* whether or not set has replaced labels on the way.
C25_AllLabelsVisited ==
  phase = "lbDone" => idna.visited = LabelsToVisit(idna.orig)

\* C26: in the joiner loop stateFAIL is never left, and when the loop has
\* ended validateLabel returns the error C exactly when the state after the
\* last rune is stateFAIL or stateAfter.
C26_FailAbsorbing ==
  [][idna.pc = "loop" =>
       /\ idna.st = "stateFAIL" => idna'.st = "stateFAIL"
       /\ idna'.pc = "done" =>
            /\ Contains(idna.orig, zwj) \/ Contains(idna.orig, zwnj)
            /\ idna'.err = "C" <=> idna'.st \in {"stateFAIL", "stateAfter"}]_vars

\* The label ZWJ, virama, a has been rejected with C: the joiner at the
\* start made the state stateFAIL and the virama and the a after it left
\* it there.
C26_Witness ==
  /\ phase = "validateLabel"
  /\ idna.orig = zwj \o <<224, 165, 141, 97>>
  /\ idna.pc = "done"
  /\ idna.turns = 3
  /\ idna.st = "stateFAIL"
  /\ idna.err = "C"

\* C29: every turn of the joiner loop advances the index by at least one
\* byte and not beyond len(s), and the loop is left exactly when the index
\* is len(s).
C29_LoopAdvances ==
  [][idna.pc = "loop" =>
       /\ idna'.i > idna.i
       /\ idna'.i <= Len(idna.orig)
       /\ idna'.pc = "done" <=> idna'.i = Len(idna.orig)]_vars

\* The call of the recorded normalization call into a destination with room
\* for all that src can yield.
RoomyCall ==
  FormTransform(callT, NewBuf(UTFMax * (Len(callSrc) + 1)), callSrc, callEOF)

\* C27: a normalization call without atEOF returns ErrShortSrc only when
\* the source is what stops it: the same call into a destination with room
\* stops at the same place with ErrShortSrc.  When a larger destination
\* would let the call go further the error is ErrShortDst.
C27_ShortSrcOnlyForSource ==
  (IsNormCall /\ ~callEOF /\ callRes.err = "ErrShortSrc") =>
    /\ RoomyCall.err = "ErrShortSrc"
    /\ RoomyCall.nSrc = callRes.nSrc

\* C28: a Reader whose transformation is complete carries an error, and a
\* Read with a buffer of at least one byte that has returned has returned
\* bytes or an error.
C28_CompleteHasError ==
  /\ reader.transformComplete => reader.err # "nil"
  /\ (phase = "rdIdle" /\ source.p > 0) =>
       (source.ret.n > 0 \/ source.ret.err # "nil")

\* A Read on a Reader of rleDecode whose transformation was complete with
\* nothing staged has returned 0 bytes and errBadInput.
C28_Witness ==
  /\ phase = "rdIdle"
  /\ callT = "rleDecode"
  /\ reader.transformComplete
  /\ reader.dst0 = reader.dst1
  /\ source.p > 0
  /\ source.ret = [n |-> 0, err |-> "errBadInput"]

\* C30: in every state of a Read the staged bytes dst[dst0:dst1] and the
\* pending bytes src[src0:src1] lie within their buffers.
C30_IndicesInBounds ==
  /\ 0 <= reader.dst0
  /\ reader.dst0 <= reader.dst1
  /\ reader.dst1 <= Len(reader.dst)
  /\ 0 <= reader.src0
  /\ reader.src0 <= reader.src1
  /\ reader.src1 <= Len(reader.src)

\* After the source buffer has been refilled past its first filling, it is
\* full with a part of it consumed, and the destination buffer was filled
\* to its end and has been copied out.
C30_Witness ==
  /\ Len(source.taken) > Len(reader.src)
  /\ reader.src1 = Len(reader.src)
  /\ reader.src0 > 0
  /\ reader.src0 < reader.src1
  /\ reader.dst1 = Len(reader.dst)
  /\ reader.dst0 = reader.dst1

====
